---- MODULE Spec2Model ----
(***************************************************************************)
(* Model of the WigleExplorer session (src/app.js): the load pipeline      *)
(* (handleFileUpload, loadData, processInChunks, calculateTimeRange,       *)
(* cancelLoading) as a state machine whose atomic steps are the            *)
(* run-to-completion segments of the JavaScript event loop between two     *)
(* macrotask suspensions (the file read, sleep(1), sleep(500)), and the    *)
(* synchronous functions of the session as operators, each applied by an   *)
(* action of a specification of its own: parseSecurityInfo (SpecClassify), *)
(* getFrequencyBand (SpecBand), the sampling plan of loadData              *)
(* (SpecSample), getFilteredNetworks (SpecFilter), updateTimeFilter        *)
(* (SpecTime), centerMapOnData (SpecCenter), getTopSightings               *)
(* (SpecSightings) and generateWardrivingAnalysis (SpecAnalysis).  The     *)
(* view operations (switchView, updateView, updateHeatmap,                 *)
(* showNetworkMarkers, updateTimeFilter, animateTimeline) act on           *)
(* this.layers and the map as the events of SpecView.                      *)
(*                                                                         *)
(* Percentages are kept in tenths of a percent (20 + progress * 0.3 is     *)
(* 200 + progress * 3), so that every reported value is an integer.        *)
(* Strings are sequences of one-character strings; JavaScript null is the  *)
(* one-symbol sequence NULL, whose symbol is no character of any alphabet. *)
(***************************************************************************)
EXTENDS Integers, Sequences, FiniteSets, TLC

VARIABLES
    loadingCancelled,   \* this.loadingCancelled
    db,                 \* this.db: the database the queries run against
    networks,           \* this.data.networks
    locations,          \* this.data.locations
    timeRange,          \* this.data.timeRange
    loads,              \* the invocations of handleFileUpload, in start order
    input,              \* <<x>>: the argument of the function under check
    output,             \* <<y>>: its result, <<>> before the call
    layers,             \* this.layers: heatmap, geoJsonLayer, layerControl
    map,                \* this.map: the overlay layers on the map, in order
    currentView,        \* this.currentView
    animationTimer,     \* this.animationTimer, with currentValue of its closure
    page                \* the inputs of the page the view operations read

vars == <<loadingCancelled, db, networks, locations, timeRange, loads,
          input, output, layers, map, currentView, animationTimer, page>>

viewVars == <<layers, map, currentView, animationTimer, page>>

(***************************************************************************)
(* Bounds of the model and program constants.  CHUNK_SIZE and              *)
(* MAX_LOCATION_SAMPLES are CONFIG.LIMITS scaled down (2000 -> 3 and       *)
(* 30000 -> 4); 3 is the least chunk size for which a one-row pass reports *)
(* more than 100 percent, as 2000 does.                                    *)
(***************************************************************************)
CHUNK_SIZE == 3
MAX_LOCATION_SAMPLES == 4
MaxChunks == 3
MaxTime == 1
MaxCapPieces == 4

\* the session is followed over two invocations of handleFileUpload
Loads == {1, 2}

NULL == <<"null">>
NoDb == [nNet |-> 0, nLoc |-> 0, t0 |-> 0, open |-> FALSE]

Min(a, b) == IF a <= b THEN a ELSE b
SetMin(S) == CHOOSE x \in S : \A y \in S : x <= y
SetMax(S) == CHOOSE x \in S : \A y \in S : x >= y

\* Math.round(a / b) for b > 0 (a half rounds up, \div rounds down)
Round(a, b) == (2 * a + b) \div (2 * b)

\* Math.ceil(a / b) for a >= 0, b > 0
Ceil(a, b) == (a + b - 1) \div b

\* x || dflt
OrElse(x, dflt) == IF x = NULL \/ x = <<>> THEN dflt ELSE x

(***************************************************************************)
(* The query source.  A database file is given by the number of network    *)
(* rows with a fix, the number of location rows with a fix and a time      *)
(* base; its rows are a fixed function of these.                           *)
(***************************************************************************)
NetCounts == {0, 1, (MaxChunks - 1) * CHUNK_SIZE + 1}
LocCounts == {0, MAX_LOCATION_SAMPLES, 2 * MAX_LOCATION_SAMPLES + 1}

Databases == [nNet : NetCounts, nLoc : LocCounts, t0 : 0..MaxTime, open : {TRUE}]

TypeOf(k) == <<"W", "B", "E", "G", "L", "C">>[(k % 6) + 1]

\* row k of  SELECT type, lastlat, lastlon, bestlevel, ssid, bssid, lasttime,
\*           frequency, capabilities FROM network ... ORDER BY lasttime DESC
NetworkRow(d, k) ==
    << TypeOf(k - 1), 52000 + k, 13000 + k, 0 - (40 + 10 * k),
       IF k % 3 = 0 THEN NULL ELSE <<"n", "e", "t">>,
       <<"b", "s">> \o [j \in 1..k |-> "x"],
       d.t0 + 1 - k, 2400 + k,
       IF k % 2 = 0 THEN NULL ELSE <<"W", "P", "A", "2">> >>

\* the row with _id = j of  SELECT l.lat, l.lon, l.level, n.type, l.time
\*                          FROM location l JOIN network n ...
LocationRow(d, j) ==
    << 52000 + j, 13000 + j, 0 - (50 + j), TypeOf(j - 1),
       IF d.t0 = 0 THEN 0 ELSE d.t0 + (j % 2) >>

NetworkQuery(d) == [k \in 1..d.nNet |-> NetworkRow(d, k)]

LocationCount(d) == d.nLoc

sampleRateFloor(locationCount) == locationCount \div MAX_LOCATION_SAMPLES

sampleRate(locationCount) == Ceil(locationCount, MAX_LOCATION_SAMPLES)

locationQuerySqlUnsampled(locationCount) ==
    IF locationCount > MAX_LOCATION_SAMPLES
    THEN [modulo |-> <<>>, limit |-> <<MAX_LOCATION_SAMPLES>>]
    ELSE [modulo |-> <<>>, limit |-> <<>>]

\* the text of locationQuery: its  l._id % n = 0  condition and its LIMIT
\* clause, each <<>> when the text has none
locationQuerySql(locationCount) ==
    IF locationCount > MAX_LOCATION_SAMPLES
    THEN [modulo |-> <<sampleRate(locationCount)>>,
          limit |-> <<MAX_LOCATION_SAMPLES>>]
    ELSE [modulo |-> <<>>, limit |-> <<>>]

\* this.db.exec(locationQuery)
LocationQuery(d) ==
    LET locationCount == LocationCount(d)
        q == locationQuerySql(locationCount)
        ids == [j \in 1..locationCount |-> j]
        hit(j) == q.modulo = <<>> \/ j % q.modulo[1] = 0
        sel == SelectSeq(ids, hit)
        lim == IF q.limit = <<>> THEN sel
               ELSE SubSeq(sel, 1, Min(Len(sel), q.limit[1]))
    IN  [m \in 1..Len(lim) |-> LocationRow(d, lim[m])]

\* the string 'Hidden Network'
HiddenNetwork ==
    <<"H", "i", "d", "d", "e", "n", " ", "N", "e", "t", "w", "o", "r", "k">>

networkTransformer(row) ==
    [type |-> row[1], lat |-> row[2], lon |-> row[3], level |-> row[4],
     ssid |-> OrElse(row[5], HiddenNetwork), bssid |-> row[6],
     lasttime |-> row[7], frequency |-> row[8],
     capabilities |-> OrElse(row[9], <<>>)]

locationTransformer(row) ==
    [lat |-> row[1], lon |-> row[2], level |-> row[3], type |-> row[4],
     time |-> row[5]]

transformer(label, row) ==
    IF label = "networks" THEN networkTransformer(row)
    ELSE locationTransformer(row)

\* rows.map(transformer)
mapRows(label, rows) == [k \in 1..Len(rows) |-> transformer(label, rows[k])]

(***************************************************************************)
(* The synchronous functions of the session that the view operations and   *)
(* the specifications below apply: the classifier parseSecurityInfo, the   *)
(* network filter getFilteredNetworks and the time filter of               *)
(* updateTimeFilter.                                                       *)
(***************************************************************************)
includes(str, sub) ==
    \E k \in 0..(Len(str) - Len(sub)) : SubSeq(str, k + 1, k + Len(sub)) = sub

parseSecurityInfoOpen(capabilities) ==
    IF capabilities = NULL \/ capabilities = <<>> THEN "Open"
    ELSE IF includes(capabilities, <<"W", "P", "A", "3">>) THEN "WPA3"
    ELSE IF includes(capabilities, <<"W", "P", "A", "2">>) THEN "WPA2"
    ELSE IF includes(capabilities, <<"W", "P", "A">>) THEN "WPA"
    ELSE IF includes(capabilities, <<"W", "E", "P">>) THEN "WEP"
    ELSE "Open"

parseSecurityInfoWPAFirst(capabilities) ==
    IF capabilities = NULL \/ capabilities = <<>> THEN "Unknown"
    ELSE IF includes(capabilities, <<"W", "P", "A", "3">>) THEN "WPA3"
    ELSE IF includes(capabilities, <<"W", "P", "A">>) THEN "WPA"
    ELSE IF includes(capabilities, <<"W", "P", "A", "2">>) THEN "WPA2"
    ELSE IF includes(capabilities, <<"W", "E", "P">>) THEN "WEP"
    ELSE "Open"

parseSecurityInfo(capabilities) ==
    IF capabilities = NULL \/ capabilities = <<>> THEN "Unknown"
    ELSE IF includes(capabilities, <<"W", "P", "A", "3">>) THEN "WPA3"
    ELSE IF includes(capabilities, <<"W", "P", "A", "2">>) THEN "WPA2"
    ELSE IF includes(capabilities, <<"W", "P", "A">>) THEN "WPA"
    ELSE IF includes(capabilities, <<"W", "E", "P">>) THEN "WEP"
    ELSE "Open"

UpperCase ==
    <<"A", "B", "C", "D", "E", "F", "G", "H", "I", "J", "K", "L", "M",
      "N", "O", "P", "Q", "R", "S", "T", "U", "V", "W", "X", "Y", "Z">>

LowerCase ==
    <<"a", "b", "c", "d", "e", "f", "g", "h", "i", "j", "k", "l", "m",
      "n", "o", "p", "q", "r", "s", "t", "u", "v", "w", "x", "y", "z">>

toLowerCase(str) ==
    [k \in 1..Len(str) |->
        IF \E u \in 1..Len(UpperCase) : UpperCase[u] = str[k]
        THEN LowerCase[CHOOSE u \in 1..Len(UpperCase) : UpperCase[u] = str[k]]
        ELSE str[k]]

\* the security gate with Unknown held to the Open check box
securityGateUnknownAsOpen(network, securityFilters) ==
    LET security == parseSecurityInfo(network.capabilities)
        isHidden == network.ssid = <<>> \/ network.ssid = HiddenNetwork
    IN  IF isHidden /\ ~securityFilters.hidden THEN FALSE
        ELSE IF ~isHidden
        THEN IF security \in {"Open", "Unknown"} /\ ~securityFilters.open
             THEN FALSE
             ELSE IF security = "WEP" /\ ~securityFilters.wep THEN FALSE
             ELSE IF security \in {"WPA", "WPA2"} /\ ~securityFilters.wpa
             THEN FALSE
             ELSE IF security = "WPA3" /\ ~securityFilters.wpa3 THEN FALSE
             ELSE TRUE
        ELSE TRUE

\* the body of  if (network.type === 'W') { ... }  : FALSE is return false
securityGate(network, securityFilters) ==
    LET security == parseSecurityInfo(network.capabilities)
        isHidden == network.ssid = <<>> \/ network.ssid = HiddenNetwork
    IN  IF isHidden /\ ~securityFilters.hidden THEN FALSE
        ELSE IF ~isHidden
        THEN IF security = "Open" /\ ~securityFilters.open THEN FALSE
             ELSE IF security = "WEP" /\ ~securityFilters.wep THEN FALSE
             ELSE IF security \in {"WPA", "WPA2"} /\ ~securityFilters.wpa
             THEN FALSE
             ELSE IF security = "WPA3" /\ ~securityFilters.wpa3 THEN FALSE
             ELSE TRUE
        ELSE TRUE

\* the callback of this.data.networks.filter
networkFilter(network, criteria) ==
    LET searchTerm == toLowerCase(criteria.searchText)
    IN  IF network.type \notin criteria.activeTypes THEN FALSE
        ELSE IF network.level < criteria.minSignal THEN FALSE
        ELSE IF /\ searchTerm # <<>>
                /\ ~includes(toLowerCase(network.ssid), searchTerm)
                /\ ~includes(toLowerCase(network.bssid), searchTerm)
        THEN FALSE
        ELSE IF network.type = "W"
        THEN securityGate(network, criteria.securityFilters)
        ELSE TRUE

getFilteredNetworksCapped(nets, criteria) ==
    LET keep(network) == networkFilter(network, criteria)
        all == SelectSeq(nets, keep)
    IN  SubSeq(all, 1, Min(Len(all), 1))

getFilteredNetworks(nets, criteria) ==
    LET keep(network) == networkFilter(network, criteria)
    IN  SelectSeq(nets, keep)

currentTime(tr, sliderValue) == 100 * tr.min + (tr.max - tr.min) * sliderValue

filteredNetworksStrict(net, cutoff) ==
    LET keep(n) == 100 * n.lasttime < cutoff
    IN  SelectSeq(net, keep)

filteredNetworks(net, cutoff) ==
    LET keep(n) == 100 * n.lasttime <= cutoff
    IN  SelectSeq(net, keep)

filteredLocationsFrom(loc, cutoff) ==
    LET keep(l) == 100 * l.time >= cutoff
    IN  SelectSeq(loc, keep)

filteredLocations(loc, cutoff) ==
    LET keep(l) == 100 * l.time <= cutoff
    IN  SelectSeq(loc, keep)

(***************************************************************************)
(* The view.  A reference of this.layers is <<>> for null and <<layer>>    *)
(* for a layer, and a layer is the value its constructor was given; map is *)
(* the sequence of the overlay layers on the Leaflet map and layerControl  *)
(* the sequence of the overlays registered with the layer control.  Of two *)
(* layers of equal value either one stands for the other.  A view          *)
(* operation is a function of the record [layers, map] and of what it      *)
(* reads from the session and the page.  MAX_HEATMAP_POINTS and            *)
(* MAX_CANVAS_MARKERS are CONFIG.LIMITS scaled down (100000 -> 10 and      *)
(* 200000 -> 3) and ANIMATION_STEP is the increment of the animation       *)
(* scaled up (2 -> 50), so that the slider wraps after two ticks.  Point   *)
(* intensities are kept in seventieths, at the intensity 1 of the page.    *)
(***************************************************************************)
MAX_HEATMAP_POINTS == 10
MAX_CANVAS_MARKERS == 3
ANIMATION_STEP == 50

Max(a, b) == IF a >= b THEN a ELSE b

NetworkTypes == <<"W", "B", "E", "G", "L", "C">>

NoView ==
    [layers |-> [heatmap |-> <<>>, geoJsonLayer |-> <<>>,
                 layerControl |-> <<>>],
     map |-> <<>>]

\* the page as it is before any input: every check box checked
DefaultPage ==
    [timeSlider |-> 100, radius |-> 15,
     filter |-> {"W", "B", "E", "G", "L", "C"},
     criteria |-> [activeTypes |-> {"W", "B", "E", "G", "L", "C"},
                   searchText |-> <<>>, minSignal |-> 0 - 100,
                   securityFilters |-> [open |-> TRUE, wep |-> TRUE,
                                        wpa |-> TRUE, wpa3 |-> TRUE,
                                        hidden |-> TRUE]]]

\* getActiveTypes() with the prefix 'filter'
getActiveTypes(pg) ==
    SelectSeq(NetworkTypes, LAMBDA type : type \in pg.filter)

removeLayerNever(overlays, layer) == overlays

\* this.map.removeLayer(layer)
removeLayer(overlays, layer) ==
    LET at == {k \in 1..Len(overlays) : overlays[k] = layer}
    IN  IF at = {} THEN overlays
        ELSE SubSeq(overlays, 1, SetMin(at) - 1)
             \o SubSeq(overlays, SetMin(at) + 1, Len(overlays))

\* this.layers.layerControl.removeLayer(layer)
controlRemoveLayer(entries, layer) ==
    LET at == {k \in 1..Len(entries) : entries[k].layer = layer}
    IN  IF at = {} THEN entries
        ELSE SubSeq(entries, 1, SetMin(at) - 1)
             \o SubSeq(entries, SetMin(at) + 1, Len(entries))

clearLayers(v) ==
    LET h == v.layers.heatmap
        v1 == IF h # <<>>
              THEN [layers |-> [v.layers EXCEPT
                                  !.layerControl = controlRemoveLayer(@, h[1]),
                                  !.heatmap = <<>>],
                    map |-> removeLayer(v.map, h[1])]
              ELSE v
        g == v1.layers.geoJsonLayer
    IN  IF g # <<>>
        THEN [layers |-> [v1.layers EXCEPT
                            !.layerControl = controlRemoveLayer(@, g[1]),
                            !.geoJsonLayer = <<>>],
              map |-> removeLayer(v1.map, g[1])]
        ELSE v1

\* for (let i = 0; i < items.length; i += step) push(items[i])
everyNth(items, step) ==
    [k \in 1..Ceil(Len(items), step) |-> items[(k - 1) * step + 1]]

networkStepFloor(length) ==
    Max(1, (10 * length) \div (3 * MAX_HEATMAP_POINTS))

\* Math.max(1, Math.ceil(filteredNetworks.length / (maxPoints * 0.3)))
networkStep(length) == Max(1, Ceil(10 * length, 3 * MAX_HEATMAP_POINTS))

\* Math.max(1, Math.ceil(filteredLocations.length / (maxPoints * 0.7)))
locationStep(length) == Max(1, Ceil(10 * length, 7 * MAX_HEATMAP_POINTS))

\* Math.max(0.1, Math.min(1, (level + 100) / 70)), in seventieths
pointIntensity(level) == Max(7, Min(70, level + 100))

networkPoints(nets) ==
    [k \in 1..Len(nets) |-> <<nets[k].lat, nets[k].lon, 56>>]

locationPoints(locs) ==
    [k \in 1..Len(locs) |->
        <<locs[k].lat, locs[k].lon, pointIntensity(locs[k].level)>>]

\* L.heatLayer(latlngs, {radius, blur, ...})
heatLayer(latlngs, radius, blur) ==
    [latlngs |-> latlngs, radius |-> radius, blur |-> blur]

\* layerControl.addOverlay(layer, name), then layer.addTo(this.map)
addOverlay(v, layer, name) ==
    [layers |-> [v.layers EXCEPT
                   !.layerControl = Append(@, [layer |-> layer, name |-> name])],
     map |-> Append(v.map, layer)]

updateHeatmap(v, net, loc, pg) ==
    LET c == clearLayers(v)
        activeTypes == getActiveTypes(pg)
        active(r) == \E k \in 1..Len(activeTypes) : activeTypes[k] = r.type
        filteredNets == SelectSeq(net, active)
        filteredLocs == SelectSeq(loc, active)
        allPoints ==
            networkPoints(everyNth(filteredNets,
                                   networkStep(Len(filteredNets))))
            \o locationPoints(everyNth(filteredLocs,
                                       locationStep(Len(filteredLocs))))
        layer == heatLayer(allPoints, pg.radius, Max(10, pg.radius - 5))
    IN  IF Len(activeTypes) = 0 THEN c
        ELSE IF Len(allPoints) > 0
        THEN addOverlay([c EXCEPT !.layers.heatmap = <<layer>>], layer,
                        "Network Heatmap")
        ELSE c

\* L.geoJSON(geoJsonData, ...)
geoJSON(networksToShow) ==
    [features |->
       [k \in 1..Len(networksToShow) |->
          [coordinates |-> <<networksToShow[k].lon, networksToShow[k].lat>>,
           properties |-> networksToShow[k]]]]

showNetworkMarkers(v, net, pg) ==
    LET c == clearLayers(v)
        filtered == getFilteredNetworks(net, pg.criteria)
        networksToShow ==
            SubSeq(filtered, 1, Min(Len(filtered), MAX_CANVAS_MARKERS))
        layer == geoJSON(networksToShow)
    IN  IF Len(networksToShow) = 0 THEN c
        ELSE addOverlay([c EXCEPT !.layers.geoJsonLayer = <<layer>>], layer,
                        "Network Markers")

renderTimelineHeatmap(v, nets, locs, pg) ==
    LET c == clearLayers(v)
        activeTypes == getActiveTypes(pg)
        active(r) == \E k \in 1..Len(activeTypes) : activeTypes[k] = r.type
        allPoints == networkPoints(SelectSeq(nets, active))
                     \o locationPoints(SelectSeq(locs, active))
        layer == heatLayer(allPoints, 15, 20)
    IN  IF Len(allPoints) > 0
        THEN [layers |-> [c.layers EXCEPT !.heatmap = <<layer>>],
              map |-> Append(c.map, layer)]
        ELSE c

\* updateTimeFilter(sliderValue) as a function of the view
updateTimeFilterView(v, net, loc, tr, sliderValue, pg) ==
    LET cutoff == currentTime(tr, sliderValue)
    IN  renderTimelineHeatmap(v, filteredNetworks(net, cutoff),
                              filteredLocations(loc, cutoff), pg)

updateView(v, view, net, loc, tr, pg) ==
    IF Len(net) = 0 THEN v
    ELSE LET c == clearLayers(v)
         IN  IF view = "heatmap" THEN updateHeatmap(c, net, loc, pg)
             ELSE IF view = "markers" THEN showNetworkMarkers(c, net, pg)
             ELSE IF view = "timeline"
             THEN updateTimeFilterView(c, net, loc, tr, pg.timeSlider, pg)
             ELSE c

\* the view of the session
View == [layers |-> layers, map |-> map]

\* the view becomes v
Show(v) == layers' = v.layers /\ map' = v.map

\* the view after construction and initMap
ViewInit ==
    /\ layers = NoView.layers
    /\ map = NoView.map
    /\ currentView = "heatmap"
    /\ animationTimer = <<>>
    /\ page = DefaultPage

\* the view a completed load leaves (line 221) for the record sets of the
\* session
LoadedViewInit ==
    /\ currentView = "heatmap"
    /\ animationTimer = <<>>
    /\ page = DefaultPage
    /\ LET v == updateView(NoView, "heatmap", networks, locations, timeRange,
                           DefaultPage)
       IN  layers = v.layers /\ map = v.map

(***************************************************************************)
(* A load: one invocation of handleFileUpload.  pc is where it is          *)
(* suspended: "read" at await file.arrayBuffer(), "networks" and           *)
(* "observations" at await this.sleep(1) inside processInChunks (the pc is *)
(* the label of the pass), "final" at await this.sleep(500).  data, i and  *)
(* result are the locals of processInChunks.  log is the sequence of       *)
(* percentages this load has passed to updateProgress.  outcome and at     *)
(* record how and where the load ended; pre is the session data at the     *)
(* moment the load began and overlapped tells whether another load was in  *)
(* flight at any time during this one (both are history, not program       *)
(* state).                                                                 *)
(***************************************************************************)
NoRange == [min |-> 0, max |-> 0]

IdleLoad ==
    [pc |-> "idle", file |-> NoDb, data |-> <<>>, i |-> 0, result |-> <<>>,
     outcome |-> "none", at |-> "none", log |-> <<>>,
     pre |-> [networks |-> <<>>, locations |-> <<>>, timeRange |-> NoRange],
     overlapped |-> FALSE, cancelRequested |-> FALSE]

InFlight(ld) == ld.pc \in {"read", "networks", "observations", "final"}

\* updateProgress(percentage, message), percentage in tenths
updateProgress(ld, percentage) == [ld EXCEPT !.log = Append(@, percentage)]

\* the load leaves handleFileUpload (return or catch, then finally)
Terminate(s, outcome, at) ==
    [s EXCEPT !.ld = [@ EXCEPT !.pc = "done", !.outcome = outcome, !.at = at,
                               !.data = <<>>, !.i = 0, !.result = <<>>]]

\* line 296 returning what has been accumulated
cancelledResultPartial(result) == result

\* line 296: return []
cancelledResult(result) == <<>>

(***************************************************************************)
(* processInChunks from the loop test at index ld.i on, up to the next     *)
(* sleep(1) or the return: [ld, ret] with ret "sleep" (suspended after the *)
(* chunk at ld.i) or "return" (ld.result is the value returned), and seen  *)
(* telling whether the return is the one of line 296.                      *)
(***************************************************************************)
sleepsAfterEachChunk(i) == i % CHUNK_SIZE = 0

\* line 305: the test guarding await this.sleep(1)
sleepsAfter(i) == i % (CHUNK_SIZE * 2) = 0

RECURSIVE processInChunks(_, _, _)
processInChunks(ld, label, cancelled) ==
    IF ~(ld.i < Len(ld.data))
    THEN [ld |-> ld, ret |-> "return", seen |-> FALSE]
    ELSE IF cancelled
    THEN [ld |-> [ld EXCEPT !.result = cancelledResult(@)], ret |-> "return",
          seen |-> TRUE]
    ELSE LET chunk == SubSeq(ld.data, ld.i + 1,
                             Min(ld.i + CHUNK_SIZE, Len(ld.data)))
             result == ld.result \o mapRows(label, chunk)
             progress == Round((ld.i + CHUNK_SIZE) * 100, Len(ld.data))
             ld2 == updateProgress([ld EXCEPT !.result = result],
                                   200 + progress * 3)
         IN  IF sleepsAfter(ld.i)
             THEN [ld |-> ld2, ret |-> "sleep", seen |-> FALSE]
             ELSE processInChunks([ld2 EXCEPT !.i = @ + CHUNK_SIZE], label,
                                  cancelled)

\* a call of processInChunks(data, transformer, label)
startPass(ld, data, label, cancelled) ==
    processInChunks([ld EXCEPT !.pc = label, !.data = data, !.i = 0,
                               !.result = <<>>], label, cancelled)

calculateTimeRange(net, loc, tr) ==
    LET allTimes == SelectSeq([k \in 1..Len(net) |-> net[k].lasttime] \o
                              [k \in 1..Len(loc) |-> loc[k].time],
                              LAMBDA t : t > 0)
        S == {allTimes[k] : k \in 1..Len(allTimes)}
    IN  IF Len(allTimes) > 0 THEN [min |-> SetMin(S), max |-> SetMax(S)]
        ELSE tr

\* handleFileUpload from line 211 (after await this.loadData()) to sleep(500)
afterLoadData(s, at) ==
    IF s.c THEN Terminate(s, "cancelled", at)
    ELSE [s EXCEPT !.ld = [updateProgress(updateProgress(
                             updateProgress(@, 850), 950), 1000)
                           EXCEPT !.pc = "final", !.data = <<>>, !.i = 0,
                                  !.result = <<>>],
                   !.view = updateView(@, s.currentView, s.net, s.loc, s.tr,
                                       s.page)]

\* loadData line 287, then the return to handleFileUpload
finishLoadData(s, at) ==
    afterLoadData([s EXCEPT !.tr = calculateTimeRange(s.net, s.loc, s.tr)], at)

\* the observations pass after a run of processInChunks (lines 281-287)
observationsContinue(s, run) ==
    IF run.ret = "sleep" THEN [s EXCEPT !.ld = run.ld]
    ELSE finishLoadData([s EXCEPT !.ld = run.ld, !.loc = run.ld.result],
                        IF run.seen THEN "observations" ELSE "loaded")

\* loadData lines 255-287
queryObservations(s, throwAt) ==
    LET s2 == [s EXCEPT !.ld = updateProgress(@, 500)]
    IN  IF throwAt \in {"count", "location"} \/ ~s.db.open
        THEN Terminate(s2, "failed", throwAt)
        ELSE LET rows == LocationQuery(s.db)
             IN  IF Len(rows) > 0
                 THEN observationsContinue(s2,
                          startPass(s2.ld, rows, "observations", s2.c))
                 ELSE finishLoadData(s2, "loaded")

\* loadData without the test of line 253
loadObservationsUnchecked(s, throwAt, at) == queryObservations(s, throwAt)

\* loadData from line 253 on; at names the place the flag was seen before
loadObservations(s, throwAt, at) ==
    IF s.c THEN Terminate(s, "cancelled", at)
    ELSE queryObservations(s, throwAt)

\* the networks pass after a run of processInChunks (lines 246-253)
networksContinue(s, run, throwAt) ==
    IF run.ret = "sleep" THEN [s EXCEPT !.ld = run.ld]
    ELSE loadObservations([s EXCEPT !.ld = run.ld, !.net = run.ld.result],
                          throwAt,
                          IF run.seen THEN "networks" ELSE "networksDone")

\* loadData from its first line
loadData(s, throwAt) ==
    LET s2 == [s EXCEPT !.ld = updateProgress(@, 200)]
    IN  IF throwAt = "network" \/ ~s.db.open
        THEN Terminate(s2, "failed", throwAt)
        ELSE LET rows == NetworkQuery(s.db)
             IN  IF Len(rows) > 0
                 THEN networksContinue(s2,
                          startPass(s2.ld, rows, "networks", s2.c), throwAt)
                 ELSE loadObservations(s2, throwAt, "networksDone")

\* handleFileUpload lines 205-210
openAndLoad(s, throwAt) ==
    LET s2 == [s EXCEPT !.ld = updateProgress(@, 150)]
    IN  IF throwAt = "open" THEN Terminate(s2, "failed", throwAt)
        ELSE loadData([s2 EXCEPT !.db = s.ld.file], throwAt)

\* line 203 clearing the session before it returns
afterReadClearing(s, throwAt) ==
    IF s.c
    THEN Terminate([s EXCEPT !.net = <<>>, !.loc = <<>>], "cancelled", "read")
    ELSE openAndLoad(s, throwAt)

\* handleFileUpload from line 203 (after await file.arrayBuffer()) on
afterRead(s, throwAt) ==
    IF s.c THEN Terminate(s, "cancelled", "read")
    ELSE openAndLoad(s, throwAt)

\* processInChunks resumed after await this.sleep(1): i += chunkSize
afterSleep(s, throwAt) ==
    LET label == s.ld.pc
        run == processInChunks([s.ld EXCEPT !.i = @ + CHUNK_SIZE], label, s.c)
    IN  IF label = "networks" THEN networksContinue(s, run, throwAt)
        ELSE observationsContinue(s, run)

ThrowPoints == {"none", "open", "network", "count", "location"}

Session(l) ==
    [c |-> loadingCancelled, db |-> db, net |-> networks, loc |-> locations,
     tr |-> timeRange, ld |-> loads[l], view |-> View,
     currentView |-> currentView, page |-> page]

\* the session after load l has run one segment to s
Commit(l, s) ==
    /\ db' = s.db
    /\ networks' = s.net
    /\ locations' = s.loc
    /\ timeRange' = s.tr
    /\ loads' = [loads EXCEPT ![l] = s.ld]
    /\ Show(s.view)
    /\ UNCHANGED <<loadingCancelled, input, output, currentView,
                   animationTimer, page>>

(***************************************************************************)
(* The events of the session.                                              *)
(***************************************************************************)
\* the 'change' event of the file input: handleFileUpload up to the first await
StartLoad(d) ==
    \E l \in Loads :
        /\ loads[l].pc = "idle"
        /\ \A m \in Loads : m < l => loads[m].pc # "idle"
        /\ loadingCancelled' = FALSE
        /\ loads' = [m \in Loads |->
              IF m = l
              THEN updateProgress(
                     [IdleLoad EXCEPT !.pc = "read", !.file = d,
                        !.pre = [networks |-> networks, locations |-> locations,
                                 timeRange |-> timeRange],
                        !.overlapped = \E n \in Loads : InFlight(loads[n])], 0)
              ELSE IF InFlight(loads[m])
              THEN [loads[m] EXCEPT !.overlapped = TRUE]
              ELSE loads[m]]
        /\ UNCHANGED <<db, networks, locations, timeRange, input, output>>
        /\ UNCHANGED viewVars

\* the file has been read
FileRead(l, throwAt) ==
    /\ loads[l].pc = "read"
    /\ Commit(l, afterRead(Session(l), throwAt))

\* the timer of sleep(1) fires
ChunkTimer(l, throwAt) ==
    /\ loads[l].pc \in {"networks", "observations"}
    /\ Commit(l, afterSleep(Session(l), throwAt))

\* the timer of sleep(500) fires: finally { showLoading(false) }
FinalTimer(l) ==
    /\ loads[l].pc = "final"
    /\ Commit(l, Terminate(Session(l), "complete", "complete"))

\* the Cancel button; cancelRequested records for the loads in flight that
\* it was pressed during them
cancelLoading ==
    /\ loadingCancelled' = TRUE
    /\ loads' = [m \in Loads |->
          IF InFlight(loads[m]) THEN [loads[m] EXCEPT !.cancelRequested = TRUE]
          ELSE loads[m]]
    /\ UNCHANGED <<db, networks, locations, timeRange, input, output>>
    /\ UNCHANGED viewVars

SessionInit ==
    /\ loadingCancelled = FALSE
    /\ db = NoDb
    /\ networks = <<>>
    /\ locations = <<>>
    /\ timeRange = NoRange
    /\ loads = [l \in Loads |-> IdleLoad]
    /\ ViewInit

Init ==
    /\ SessionInit
    /\ input = <<>>
    /\ output = <<>>

Next ==
    \/ \E d \in Databases : StartLoad(d)
    \/ \E l \in Loads, throwAt \in ThrowPoints : FileRead(l, throwAt)
    \/ \E l \in Loads, throwAt \in ThrowPoints : ChunkTimer(l, throwAt)
    \/ \E l \in Loads : FinalTimer(l)
    \/ cancelLoading

Spec == Init /\ [][Next]_vars

(***************************************************************************)
(* The classifier.  Capability strings are concatenations of at most       *)
(* MaxCapPieces pieces, so that every token parseSecurityInfo looks for    *)
(* occurs, alone, inside another token's text and next to other tokens.    *)
(***************************************************************************)
CapPieces ==
    { <<"W">>, <<"P", "A">>, <<"W", "P", "A">>, <<"W", "E", "P">>, <<"2">>,
      <<"3">>, <<"-">>, <<"E", "S", "S">> }

RECURSIVE Flatten(_)
Flatten(ss) == IF ss = <<>> THEN <<>> ELSE Head(ss) \o Flatten(Tail(ss))

CapStrings ==
    {NULL} \cup
    UNION { {Flatten(f) : f \in [1..n -> CapPieces]} : n \in 0..MaxCapPieces }

InitClassify ==
    /\ SessionInit
    /\ input \in {<<c>> : c \in CapStrings}
    /\ output = <<>>

\* a call this.parseSecurityInfo(input)
classifySecurity ==
    /\ output = <<>>
    /\ output' = <<parseSecurityInfo(input[1])>>
    /\ UNCHANGED viewVars
    /\ UNCHANGED <<loadingCancelled, db, networks, locations, timeRange, loads,
                   input>>

NextClassify == classifySecurity

SpecClassify == InitClassify /\ [][NextClassify]_vars

(***************************************************************************)
(* The network filter.  criteria is what getFilteredNetworks reads from    *)
(* the page: the checked marker types, the text of the search box, the     *)
(* value of the signal slider and the five security check boxes.           *)
(***************************************************************************)
(***************************************************************************)
(* The record sets the filter is applied to are runs of at most MaxRecords *)
(* consecutive rows of a table of network rows, transformed as loadData    *)
(* transforms them; the table has a row for every security class, for a    *)
(* missing capabilities column, for a missing and an empty ssid, for a     *)
(* weak signal and for a type other than W.                                *)
(***************************************************************************)
MaxRecords == 2

FilterFields ==
    << <<"W", 50, <<"A", "b">>, NULL>>,
       <<"W", 50, <<"A", "b">>, <<"W", "E", "P">>>>,
       <<"W", 50, <<"A", "b">>, <<"W", "P", "A">>>>,
       <<"W", 50, <<"A", "b">>, <<"W", "P", "A", "2">>>>,
       <<"W", 50, <<"A", "b">>, <<"W", "P", "A", "3">>>>,
       <<"W", 50, <<"A", "b">>, <<"E", "S", "S">>>>,
       <<"W", 50, NULL, NULL>>,
       <<"W", 50, <<>>, <<"W", "P", "A", "2">>>>,
       <<"W", 90, <<"A", "b">>, <<"W", "P", "A", "2">>>>,
       <<"B", 50, <<"C", "d">>, NULL>>,
       <<"B", 50, NULL, <<"W", "P", "A", "2">>>>,
       <<"W", 50, <<"C", "d">>, <<"E", "S", "S">>>> >>

\* row k of the network query
FilterRow(k) ==
    LET f == FilterFields[k]
    IN  << f[1], 52000 + k, 13000 + k, 0 - f[2], f[3],
           <<"F", LowerCase[k]>>, 1 + k, 2400 + k, f[4] >>

\* the n records that follow record s - 1 of the table, cyclically
FilterWindow(s, n) ==
    mapRows("networks",
            [k \in 1..n |-> FilterRow(((s + k - 2) % Len(FilterFields)) + 1)])

FilterCriteria ==
    [activeTypes : {{"W", "B"}, {"W"}, {"B"}},
     searchText : {<<>>, <<"a", "B">>, <<"F", "J">>},
     minSignal : {0 - 100, 0 - 60},
     securityFilters : [open : BOOLEAN, wep : BOOLEAN, wpa : BOOLEAN,
                        wpa3 : BOOLEAN, hidden : BOOLEAN]]

\* the subsequence of s at the indices of keep
SubSequence(s, keep) ==
    LET in(k) == k \in keep
        idx == SelectSeq([k \in 1..Len(s) |-> k], in)
    IN  [m \in 1..Len(idx) |-> s[idx[m]]]

InitFilter ==
    /\ loadingCancelled = FALSE
    /\ db = NoDb
    /\ locations = <<>>
    /\ timeRange = NoRange
    /\ loads = [l \in Loads |-> IdleLoad]
    /\ \E s \in 1..Len(FilterFields), n \in 0..MaxRecords :
          networks = FilterWindow(s, n)
    /\ input \in {<<c, keep>> : c \in FilterCriteria,
                                keep \in SUBSET (1..Len(networks))}
    /\ output = <<>>
    /\ LoadedViewInit

\* getFilteredNetworks on this.data.networks and on the part of it that
\* input[2] selects, under the same criteria
filterNetworks ==
    /\ output = <<>>
    /\ output' = <<getFilteredNetworks(networks, input[1]),
                   getFilteredNetworks(SubSequence(networks, input[2]),
                                       input[1])>>
    /\ UNCHANGED viewVars
    /\ UNCHANGED <<loadingCancelled, db, networks, locations, timeRange, loads,
                   input>>

NextFilter == filterNetworks

SpecFilter == InitFilter /\ [][NextFilter]_vars

(***************************************************************************)
(* The timeline.  The session the time filter runs in is the one two       *)
(* completed loads leave: completedLoad is handleFileUpload run from start *)
(* to end with no cancellation, no failure and no other load in flight.    *)
(* currentTime is kept in hundredths of a millisecond, so that             *)
(* min + (max - min) * sliderValue / 100 is an integer.  output is the     *)
(* sequence of the calls made so far: the slider value, currentTime and    *)
(* the two record sets handed to renderTimelineHeatmap.                    *)
(***************************************************************************)
MaxCalls == 2

Sliders == {0, 50, 100}

completedLoad(data, d) ==
    LET net == IF Len(NetworkQuery(d)) > 0
               THEN mapRows("networks", NetworkQuery(d))
               ELSE data.networks
        loc == IF Len(LocationQuery(d)) > 0
               THEN mapRows("observations", LocationQuery(d))
               ELSE data.locations
    IN  [networks |-> net, locations |-> loc,
         timeRange |-> calculateTimeRange(net, loc, data.timeRange)]

NoData == [networks |-> <<>>, locations |-> <<>>, timeRange |-> NoRange]

\* the databases of the timeline: one more time base, so that a network
\* lies strictly inside the time range
TimelineDatabases ==
    [nNet : NetCounts, nLoc : LocCounts, t0 : 0..(MaxTime + 1), open : {TRUE}]

InitTime ==
    /\ loadingCancelled = FALSE
    /\ loads = [l \in Loads |-> IdleLoad]
    /\ \E d1 \in TimelineDatabases, d2 \in TimelineDatabases :
          LET data == completedLoad(completedLoad(NoData, d1), d2)
          IN  /\ db = d2
              /\ networks = data.networks
              /\ locations = data.locations
              /\ timeRange = data.timeRange
    /\ input = <<>>
    /\ output = <<>>
    /\ LoadedViewInit

\* the time slider is moved to sliderValue
updateTimeFilter(sliderValue) ==
    /\ Len(output) < MaxCalls
    /\ input' = <<sliderValue>>
    /\ LET cutoff == currentTime(timeRange, sliderValue)
       IN  output' = Append(output,
                            [sliderValue |-> sliderValue,
                             currentTime |-> cutoff,
                             networks |-> filteredNetworks(networks, cutoff),
                             locations |-> filteredLocations(locations,
                                                             cutoff)])
    /\ Show(updateTimeFilterView(View, networks, locations, timeRange,
                                 sliderValue, page))
    /\ page' = [page EXCEPT !.timeSlider = sliderValue]
    /\ UNCHANGED <<currentView, animationTimer>>
    /\ UNCHANGED <<loadingCancelled, db, networks, locations, timeRange,
                   loads>>

NextTime == \E sliderValue \in Sliders : updateTimeFilter(sliderValue)

SpecTime == InitTime /\ [][NextTime]_vars

(***************************************************************************)
(* The spatial clusterer.  Coordinates are integers in thousandths of a    *)
(* degree, so that gridSize 0.01 is 10 and Math.round(lat / gridSize) *    *)
(* gridSize is Round(lat, 10) * 10.  grid is the object of the code as the *)
(* sequence of its entries in insertion order, which is the order          *)
(* Object.entries lists keys of the form 'lat,lon' in.                     *)
(***************************************************************************)
gridSize == 10

gridKey(network) ==
    <<Round(network.lat, gridSize) * gridSize,
      Round(network.lon, gridSize) * gridSize>>

\* grid[key] = (grid[key] || 0) + 1
countInGrid(grid, key) ==
    IF \E e \in 1..Len(grid) : grid[e].key = key
    THEN [e \in 1..Len(grid) |->
            IF grid[e].key = key THEN [grid[e] EXCEPT !.count = @ + 1]
            ELSE grid[e]]
    ELSE Append(grid, [key |-> key, count |-> 1])

\* this.data.networks.forEach(...) from record k on
RECURSIVE buildGrid(_, _, _)
buildGrid(nets, k, grid) ==
    IF k > Len(nets) THEN grid
    ELSE buildGrid(nets, k + 1, countInGrid(grid, gridKey(nets[k])))

\* the callback of Object.entries(grid).forEach taking the last of the
\* cells tied for the maximum
denserCellLast(best, entry) ==
    IF entry.count >= best.maxCount
    THEN [maxCount |-> entry.count, center |-> entry.key]
    ELSE best

\* the callback of Object.entries(grid).forEach
denserCell(best, entry) ==
    IF entry.count > best.maxCount
    THEN [maxCount |-> entry.count, center |-> entry.key]
    ELSE best

\* Object.entries(grid).forEach(...) from entry e on
RECURSIVE scanGrid(_, _, _)
scanGrid(grid, e, best) ==
    IF e > Len(grid) THEN best
    ELSE scanGrid(grid, e + 1, denserCell(best, grid[e]))

\* the argument of this.map.setView, <<>> when the map is left alone
mapCenter(nets) ==
    IF Len(nets) = 0 THEN <<>>
    ELSE scanGrid(buildGrid(nets, 1, <<>>), 1,
                  [maxCount |-> 0, center |-> <<0, 0>>]).center

(***************************************************************************)
(* The network sets the clusterer is applied to: at most MaxPoints records *)
(* at positions of Positions, which has two positions of one cell, a       *)
(* position on the edge between two cells, a position of a far cell and a  *)
(* position with a negative coordinate.                                    *)
(***************************************************************************)
MaxPoints == 5

Positions ==
    { <<52001, 13001>>, <<52004, 12996>>, <<52005, 13001>>, <<52500, 13500>>,
      <<0 - 6, 13001>> }

\* row k of the network query, at position p
PositionRow(p, k) ==
    << "W", p[1], p[2], 0 - 50, <<"n", "e", "t">>,
       <<"b", "s">> \o [j \in 1..k |-> "x"], k, 2412, NULL >>

InitCenter ==
    /\ loadingCancelled = FALSE
    /\ db = NoDb
    /\ locations = <<>>
    /\ timeRange = NoRange
    /\ loads = [l \in Loads |-> IdleLoad]
    /\ \E n \in 0..MaxPoints :
          \E ps \in [1..n -> Positions] :
             networks = mapRows("networks",
                                [k \in 1..n |-> PositionRow(ps[k], k)])
    /\ input = <<>>
    /\ output = <<>>
    /\ LoadedViewInit

\* output is <<c>> with c the argument of setView, or <<>> for no call
centerMapOnData ==
    /\ output = <<>>
    /\ output' = <<mapCenter(networks)>>
    /\ UNCHANGED viewVars
    /\ UNCHANGED <<loadingCancelled, db, networks, locations, timeRange, loads,
                   input>>

NextCenter == centerMapOnData

SpecCenter == InitCenter /\ [][NextCenter]_vars

(***************************************************************************)
(* The sighting ranking.  Coordinates are integers in ten-thousandths of a *)
(* degree, so that the distance 0.001 of the match is 10.  sightings is    *)
(* the object of the code as the sequence of its entries in insertion      *)
(* order (its keys, the bssids, are no array indices).                     *)
(***************************************************************************)
TOP_SIGHTINGS == 8

Abs(x) == IF x < 0 THEN 0 - x ELSE x

\* the find callback with a distance of exactly 0.001 taken as a match
nearSameTypeInclusive(n, location) ==
    /\ n.type = location.type
    /\ Abs(n.lat - location.lat) <= 10
    /\ Abs(n.lon - location.lon) <= 10

\* the callback of this.data.networks.find
nearSameType(n, location) ==
    /\ n.type = location.type
    /\ Abs(n.lat - location.lat) < 10
    /\ Abs(n.lon - location.lon) < 10

\* this.data.networks.find(...): <<network>>, or <<>> for undefined
findNetwork(nets, location) ==
    IF \E k \in 1..Len(nets) : nearSameType(nets[k], location)
    THEN <<nets[SetMin({k \in 1..Len(nets) : nearSameType(nets[k], location)})]>>
    ELSE <<>>

\* sightings[network.bssid].sightings++, with the entry created first
addSighting(sightings, network) ==
    LET created ==
          IF \E e \in 1..Len(sightings) : sightings[e].bssid = network.bssid
          THEN sightings
          ELSE Append(sightings,
                      [ssid |-> network.ssid, bssid |-> network.bssid,
                       type |-> network.type,
                       capabilities |-> network.capabilities, sightings |-> 0])
    IN  [e \in 1..Len(created) |->
            IF created[e].bssid = network.bssid
            THEN [created[e] EXCEPT !.sightings = @ + 1]
            ELSE created[e]]

\* the forEach callback counting the hidden networks too
countSightingHidden(sightings, nets, location) ==
    LET found == findNetwork(nets, location)
    IN  IF found # <<>> THEN addSighting(sightings, found[1]) ELSE sightings

\* the callback of this.data.locations.forEach
countSighting(sightings, nets, location) ==
    LET found == findNetwork(nets, location)
    IN  IF /\ found # <<>>
           /\ found[1].ssid # NULL /\ found[1].ssid # <<>>
           /\ found[1].ssid # HiddenNetwork
        THEN addSighting(sightings, found[1])
        ELSE sightings

\* this.data.locations.forEach(...) from observation j on
RECURSIVE tallySightings(_, _, _, _)
tallySightings(nets, locs, j, sightings) ==
    IF j > Len(locs) THEN sightings
    ELSE tallySightings(nets, locs, j + 1,
                        countSighting(sightings, nets, locs[j]))

\* entry put behind the entries of sorted that do not come after it
insertBySightings(sorted, entry) ==
    LET before == {e \in 1..Len(sorted) : sorted[e].sightings >= entry.sightings}
        at == IF before = {} THEN 0 ELSE SetMax(before)
    IN  SubSeq(sorted, 1, at) \o <<entry>> \o SubSeq(sorted, at + 1, Len(sorted))

\* .sort((a, b) => b.sightings - a.sightings), a stable sort
RECURSIVE sortBySightings(_, _, _)
sortBySightings(entries, e, sorted) ==
    IF e > Len(entries) THEN sorted
    ELSE sortBySightings(entries, e + 1, insertBySightings(sorted, entries[e]))

\* the tallies before the cut and the value returned
getTopSightings(nets, locs) ==
    LET sightings == tallySightings(nets, locs, 1, <<>>)
        sorted == sortBySightings(sightings, 1, <<>>)
    IN  [sightings |-> sightings,
         top |-> SubSeq(sorted, 1, Min(Len(sorted), TOP_SIGHTINGS))]

(***************************************************************************)
(* The sessions the ranking runs in: at most MaxNetworks networks and      *)
(* MaxObservations observations.  The networks are at two positions less   *)
(* than 0.001 apart and at a far one, named or hidden, of type W or B; the *)
(* observations are near both, near one only, at exactly 0.001 of one, or  *)
(* far from all.                                                           *)
(***************************************************************************)
MaxNetworks == 2
MaxObservations == 3

SightedNetworks ==
    { <<"W", 520001, 130001, <<"n", "e", "t">>>>,
      <<"W", 520001, 130001, NULL>>,
      <<"W", 520008, 130001, <<"n", "e", "t">>>>,
      <<"W", 520008, 130001, NULL>>,
      <<"B", 520008, 130001, <<"n", "e", "t">>>>,
      <<"W", 530000, 140000, <<"n", "e", "t">>>> }

SightedObservations ==
    { <<520002, 130001, "W">>, <<520003, 130000, "W">>, <<520011, 130001, "W">>,
      <<530000, 140000, "W">>, <<520002, 130001, "B">> }

SightedNetworkRow(f, k) ==
    << f[1], f[2], f[3], 0 - 50, f[4], <<"b", "s">> \o [j \in 1..k |-> "x"],
       k, 2412, NULL >>

SightedLocationRow(f, j) == << f[1], f[2], 0 - 60, f[3], j >>

InitSightings ==
    /\ loadingCancelled = FALSE
    /\ db = NoDb
    /\ timeRange = NoRange
    /\ loads = [l \in Loads |-> IdleLoad]
    /\ \E n \in 0..MaxNetworks :
          \E fs \in [1..n -> SightedNetworks] :
             networks = mapRows("networks",
                                [k \in 1..n |-> SightedNetworkRow(fs[k], k)])
    /\ \E n \in 0..MaxObservations :
          \E fs \in [1..n -> SightedObservations] :
             locations = mapRows("observations",
                                 [j \in 1..n |-> SightedLocationRow(fs[j], j)])
    /\ input = <<>>
    /\ output = <<>>
    /\ LoadedViewInit

\* a call this.getTopSightings()
rankSightings ==
    /\ output = <<>>
    /\ output' = <<getTopSightings(networks, locations)>>
    /\ UNCHANGED viewVars
    /\ UNCHANGED <<loadingCancelled, db, networks, locations, timeRange, loads,
                   input>>

NextSightings == rankSightings

SpecSightings == InitSightings /\ [][NextSightings]_vars

(***************************************************************************)
(* The wardriving analysis of the current network set.  The fields of the  *)
(* returned object that are computed from the networks alone are kept      *)
(* (coverageArea, topSightings and timeInsight are values of other pure    *)
(* functions and are not drawn upon here).                                 *)
(***************************************************************************)
MaxSecured == 2

\* networks.filter(n => n.type === type)
ofType(nets, types) == SelectSeq(nets, LAMBDA n : n.type \in types)

percentageFloor(count, total) == (count * 100) \div total

\* Math.round((count / total) * 100)
percentage(count, total) == Round(count * 100, total)

\* ['W','B','E','G','L','C'].forEach(...): an entry per type that occurs
networkTypes(nets) ==
    LET present == SelectSeq(<<"W", "B", "E", "G", "L", "C">>,
                             LAMBDA type : Len(ofType(nets, {type})) > 0)
    IN  [i \in 1..Len(present) |->
           [type |-> present[i], count |-> Len(ofType(nets, {present[i]})),
            percentage |-> percentage(Len(ofType(nets, {present[i]})),
                                      Len(nets))]]

\* the keys of wifiSecurityCounts, in the order of their insertion
securityKeys(wifi) ==
    LET class(k) == parseSecurityInfo(wifi[k].capabilities)
        firsts == SelectSeq([k \in 1..Len(wifi) |-> k],
                            LAMBDA k : \A j \in 1..(k - 1) : class(j) # class(k))
    IN  [i \in 1..Len(firsts) |-> class(firsts[i])]

\* wifiSecurityCounts[security]
wifiSecurityCount(wifi, security) ==
    Len(SelectSeq(wifi, LAMBDA n : parseSecurityInfo(n.capabilities) = security))

wifiSecurity(wifi) ==
    LET keys == securityKeys(wifi)
    IN  [i \in 1..Len(keys) |->
           [type |-> keys[i], count |-> wifiSecurityCount(wifi, keys[i]),
            percentage |-> IF Len(wifi) > 0
                           THEN percentage(wifiSecurityCount(wifi, keys[i]),
                                           Len(wifi))
                           ELSE 0]]

\* the Set uniqueSSIDs
uniqueSSIDs(wifi) ==
    { wifi[k].ssid : k \in { j \in 1..Len(wifi) :
                               /\ wifi[j].ssid # NULL
                               /\ wifi[j].ssid # <<>>
                               /\ wifi[j].ssid # HiddenNetwork } }

commonNames ==
    << <<"F", "R", "I", "T", "Z", "!", "B", "o", "x">>,
       <<"V", "o", "d", "a", "f", "o", "n", "e">>,
       <<"T", "e", "l", "e", "k", "o", "m">>,
       <<"e", "d", "u", "r", "o", "a", "m">>,
       <<"G", "u", "e", "s", "t">> >>

\* commonNames.filter(name => wifiNetworks.some(n => n.ssid && n.ssid.includes(name)))
foundCommon(wifi) ==
    SelectSeq(commonNames,
              LAMBDA name : \E k \in 1..Len(wifi) :
                               /\ wifi[k].ssid # NULL
                               /\ wifi[k].ssid # <<>>
                               /\ includes(wifi[k].ssid, name))

\* the findings pushed, before the slice; uniques / Len(wifi) is NaN for
\* 0 / 0 and Infinity for a positive count over 0
pushedFindings(wifi, bluetooth, uniques) ==
    LET openNetworks == wifiSecurityCount(wifi, "Open")
        wepNetworks == wifiSecurityCount(wifi, "WEP")
        wpa3Networks == wifiSecurityCount(wifi, "WPA3")
        low == Len(wifi) > 0 /\ 10 * uniques < 3 * Len(wifi)
        high == \/ Len(wifi) > 0 /\ 10 * uniques > 8 * Len(wifi)
                \/ Len(wifi) = 0 /\ uniques > 0
    IN  (IF openNetworks > 5
         THEN <<[finding |-> "open", count |-> openNetworks]>> ELSE <<>>)
        \o (IF wepNetworks > 0
            THEN <<[finding |-> "wep", count |-> wepNetworks]>> ELSE <<>>)
        \o (IF wpa3Networks > 0
            THEN <<[finding |-> "wpa3", count |-> wpa3Networks]>> ELSE <<>>)
        \o (IF Len(bluetooth) > 50
            THEN <<[finding |-> "bluetooth", count |-> Len(bluetooth)]>>
            ELSE <<>>)
        \o (IF low THEN <<[finding |-> "lowDiversity", count |-> 0]>>
            ELSE IF high THEN <<[finding |-> "highDiversity", count |-> 0]>>
            ELSE <<>>)
        \o (IF Len(foundCommon(wifi)) > 2
            THEN <<[finding |-> "common", count |-> Len(foundCommon(wifi))]>>
            ELSE <<>>)

generateWardrivingFindingsUnsliced(wifi, bluetooth, uniques) ==
    pushedFindings(wifi, bluetooth, uniques)

\* findings.slice(0, 5)
generateWardrivingFindings(wifi, bluetooth, uniques) ==
    SubSeq(pushedFindings(wifi, bluetooth, uniques), 1,
           Min(5, Len(pushedFindings(wifi, bluetooth, uniques))))

generateWardrivingAnalysis(nets) ==
    LET wifi == ofType(nets, {"W"})
        bluetooth == ofType(nets, {"B", "E"})
        cellular == ofType(nets, {"G", "L", "C"})
        openNetworks == wifiSecurityCount(wifi, "Open")
    IN  [totalNetworks |-> Len(nets),
         wifiNetworks |-> Len(wifi),
         bluetoothDevices |-> Len(bluetooth),
         cellularNetworks |-> Len(cellular),
         uniqueSSIDs |-> Cardinality(uniqueSSIDs(wifi)),
         openNetworks |-> openNetworks,
         openPercentage |-> IF Len(wifi) > 0
                            THEN percentage(openNetworks, Len(wifi)) ELSE 0,
         networkTypes |-> networkTypes(nets),
         wifiSecurity |-> wifiSecurity(wifi),
         findings |-> generateWardrivingFindings(wifi, bluetooth,
                                                 Cardinality(uniqueSSIDs(wifi)))]

\* The network sets analysed: a census gives the number of networks of each
\* kind, and the names of the Wi-Fi networks cycle through a pool.
SsidPool ==
    << <<"F", "R", "I", "T", "Z", "!", "B", "o", "x", " ", "7">>,
       <<"V", "o", "d", "a", "f", "o", "n", "e">>,
       <<"m", "y", "T", "e", "l", "e", "k", "o", "m">>,
       <<"e", "d", "u", "r", "o", "a", "m">>,
       <<"G", "u", "e", "s", "t">>,
       NULL,
       <<>>,
       <<"h", "o", "m", "e">> >>

Census ==
    [open : {0, 5, 6}, wep : {0, 1}, wpa3 : {0, 1}, wpa2 : 0..MaxSecured,
     unknown : {0, 1}, B : {0, 50, 51}, E : {0, 1},
     cellular : {0, 1, 3}, other : {0, 1},
     cycle : {1, 3, 8}, offset : {0, 5}]

\* n copies of x
Copies(n, x) == [k \in 1..n |-> x]

CensusKinds(c) ==
    Copies(c.open, <<"W", <<"[", "E", "S", "S", "]">>>>)
    \o Copies(c.wep, <<"W", <<"[", "W", "E", "P", "]">>>>)
    \o Copies(c.wpa3, <<"W", <<"[", "W", "P", "A", "3", "]">>>>)
    \o Copies(c.wpa2, <<"W", <<"[", "W", "P", "A", "2", "]">>>>)
    \o Copies(c.unknown, <<"W", NULL>>)
    \o Copies(c.B, <<"B", NULL>>)
    \o Copies(c.E, <<"E", NULL>>)
    \o SubSeq(<< <<"G", NULL>>, <<"L", NULL>>, <<"C", NULL>> >>, 1, c.cellular)
    \o Copies(c.other, <<"N", NULL>>)

CensusRow(c, k) ==
    << CensusKinds(c)[k][1], 52000 + k, 13000, 0 - 50,
       SsidPool[(((k % c.cycle) + c.offset) % 8) + 1],
       <<"b", "s">>, k, 2412, CensusKinds(c)[k][2] >>

InitAnalysis ==
    /\ loadingCancelled = FALSE
    /\ db = NoDb
    /\ timeRange = NoRange
    /\ loads = [l \in Loads |-> IdleLoad]
    /\ \E c \in Census :
          /\ networks = mapRows("networks",
                                [k \in 1..Len(CensusKinds(c)) |-> CensusRow(c, k)])
          /\ input = <<c>>
    /\ locations = <<>>
    /\ output = <<>>
    /\ LoadedViewInit

\* a call this.generateWardrivingAnalysis()
analyse ==
    /\ output = <<>>
    /\ output' = <<generateWardrivingAnalysis(networks)>>
    /\ UNCHANGED viewVars
    /\ UNCHANGED <<loadingCancelled, db, networks, locations, timeRange, loads,
                   input>>

NextAnalysis == analyse

SpecAnalysis == InitAnalysis /\ [][NextAnalysis]_vars

(***************************************************************************)
(* The view operations, on the session a completed load leaves: record     *)
(* sets of up to MaxViewNetworks networks and MaxViewObservations          *)
(* observations, of alternating types, the k-th with the timestamp k.      *)
(***************************************************************************)
MaxViewNetworks == 7
MaxViewObservations == 15

ViewNetworkRow(k) ==
    << IF k % 2 = 1 THEN "W" ELSE "B", 52000 + k, 13000 + k, 0 - 50,
       <<"n", "e", "t">>, <<"b", "s">> \o [j \in 1..k |-> "x"], k, 2412,
       <<"W", "P", "A", "2">> >>

ViewLocationRow(j) ==
    << 53000 + j, 14000 + j, <<0 - 95, 0 - 60, 0 - 20>>[(j % 3) + 1],
       IF j % 2 = 1 THEN "W" ELSE "B", j >>

ViewFilters == { {"W", "B", "E", "G", "L", "C"}, {"W"}, {} }

ViewCriteria ==
    { DefaultPage.criteria, [DefaultPage.criteria EXCEPT !.activeTypes = {"B"}] }

Radii == {15, 25}

Views == {"heatmap", "markers", "timeline"}

InitView ==
    /\ loadingCancelled = FALSE
    /\ db = NoDb
    /\ loads = [l \in Loads |-> IdleLoad]
    /\ \E n \in {0, 1, MaxViewNetworks} :
          networks = mapRows("networks", [k \in 1..n |-> ViewNetworkRow(k)])
    /\ \E m \in {0, 1, MaxViewObservations} :
          locations = mapRows("observations",
                              [j \in 1..m |-> ViewLocationRow(j)])
    /\ timeRange = calculateTimeRange(networks, locations, NoRange)
    /\ input = <<>>
    /\ output = <<>>
    /\ LoadedViewInit

\* a click on a view tab (line 143)
switchView(viewName) ==
    /\ currentView' = viewName
    /\ Show(updateView(View, viewName, networks, locations, timeRange, page))
    /\ UNCHANGED <<loadingCancelled, db, networks, locations, timeRange, loads,
                   input, output, animationTimer, page>>

\* a click on 'updateMap' (line 154): this.updateView()
clickUpdateMap ==
    /\ Show(updateView(View, currentView, networks, locations, timeRange,
                       page))
    /\ UNCHANGED <<loadingCancelled, db, networks, locations, timeRange, loads,
                   input, output, currentView, animationTimer, page>>

\* a change of the filter check boxes (line 166): this.updateView()
changeFilter(types) ==
    /\ page' = [page EXCEPT !.filter = types]
    /\ Show(updateView(View, currentView, networks, locations, timeRange,
                       page'))
    /\ UNCHANGED <<loadingCancelled, db, networks, locations, timeRange, loads,
                   input, output, currentView, animationTimer>>

\* an input of the radius slider (lines 159-162): this.updateHeatmap()
inputRadius(radius) ==
    /\ page' = [page EXCEPT !.radius = radius]
    /\ Show(updateHeatmap(View, networks, locations, page'))
    /\ UNCHANGED <<loadingCancelled, db, networks, locations, timeRange, loads,
                   input, output, currentView, animationTimer>>

\* a click on 'showMarkers' or a change of the marker filters (lines
\* 167-180): this.showNetworkMarkers()
changeMarkers(criteria) ==
    /\ page' = [page EXCEPT !.criteria = criteria]
    /\ Show(showNetworkMarkers(View, networks, page'))
    /\ UNCHANGED <<loadingCancelled, db, networks, locations, timeRange, loads,
                   input, output, currentView, animationTimer>>

\* an input of the time slider (line 184): this.updateTimeFilter(value)
inputTimeSlider(sliderValue) ==
    /\ page' = [page EXCEPT !.timeSlider = sliderValue]
    /\ Show(updateTimeFilterView(View, networks, locations, timeRange,
                                 sliderValue, page))
    /\ UNCHANGED <<loadingCancelled, db, networks, locations, timeRange, loads,
                   input, output, currentView, animationTimer>>

\* a click on 'animateTime': the timer is cleared, or set with currentValue 0
animateTimeline ==
    /\ animationTimer' = IF animationTimer # <<>> THEN <<>> ELSE <<0>>
    /\ UNCHANGED <<loadingCancelled, db, networks, locations, timeRange, loads,
                   input, output, layers, map, currentView, page>>

\* the callback of setInterval
animationTick ==
    /\ animationTimer # <<>>
    /\ LET currentValue == IF animationTimer[1] + ANIMATION_STEP > 100 THEN 0
                           ELSE animationTimer[1] + ANIMATION_STEP
       IN  /\ animationTimer' = <<currentValue>>
           /\ page' = [page EXCEPT !.timeSlider = currentValue]
           /\ Show(updateTimeFilterView(View, networks, locations, timeRange,
                                        currentValue, page))
    /\ UNCHANGED <<loadingCancelled, db, networks, locations, timeRange, loads,
                   input, output, currentView>>

NextView ==
    \/ \E viewName \in Views : switchView(viewName)
    \/ clickUpdateMap
    \/ \E types \in ViewFilters : changeFilter(types)
    \/ \E radius \in Radii : inputRadius(radius)
    \/ \E criteria \in ViewCriteria : changeMarkers(criteria)
    \/ \E sliderValue \in Sliders : inputTimeSlider(sliderValue)
    \/ animateTimeline
    \/ animationTick

SpecView == InitView /\ [][NextView]_vars

(***************************************************************************)
(* The sampling plan of the observations pass, for every row count up to   *)
(* MaxRows: the query text loadData builds and the rows it returns.        *)
(***************************************************************************)
MaxRows == 60

InitSample ==
    /\ SessionInit
    /\ input \in {<<n>> : n \in 0..MaxRows}
    /\ output = <<>>

\* loadData from the count query to the result of the location query
planSample ==
    /\ output = <<>>
    /\ LET d == [nNet |-> 0, nLoc |-> input[1], t0 |-> 0, open |-> TRUE]
       IN  output' = <<locationQuerySql(LocationCount(d)), LocationQuery(d)>>
    /\ UNCHANGED viewVars
    /\ UNCHANGED <<loadingCancelled, db, networks, locations, timeRange, loads,
                   input>>

NextSample == planSample

SpecSample == InitSample /\ [][NextSample]_vars

(***************************************************************************)
(* The frequency classifier.  Frequencies are the integers within          *)
(* FreqDelta of an edge of a band the classifier or its documentation      *)
(* names, and a value inside each band; band names are the strings the     *)
(* code returns.                                                           *)
(***************************************************************************)
FreqDelta == 3

getFrequencyBand6First(frequency) ==
    IF frequency >= 2400 /\ frequency <= 2500 THEN "2.4 GHz"
    ELSE IF frequency >= 6000 /\ frequency <= 7000 THEN "6 GHz"
    ELSE IF frequency >= 5000 /\ frequency <= 6000 THEN "5 GHz"
    ELSE "Other"

getFrequencyBandCellular(frequency) ==
    IF frequency >= 2400 /\ frequency <= 2500 THEN "2.4 GHz"
    ELSE IF frequency >= 5000 /\ frequency <= 6000 THEN "5 GHz"
    ELSE IF frequency >= 6000 /\ frequency <= 7000 THEN "6 GHz"
    ELSE IF frequency >= 900 /\ frequency <= 1000 THEN "900 MHz"
    ELSE IF frequency >= 1800 /\ frequency <= 2000 THEN "1800 MHz"
    ELSE "Other"

getFrequencyBand(frequency) ==
    IF frequency >= 2400 /\ frequency <= 2500 THEN "2.4 GHz"
    ELSE IF frequency >= 5000 /\ frequency <= 6000 THEN "5 GHz"
    ELSE IF frequency >= 6000 /\ frequency <= 7000 THEN "6 GHz"
    ELSE "Other"

BandEdges == {900, 1000, 1800, 2000, 2400, 2500, 5000, 6000, 7000}

Frequencies ==
    {0, 950, 1900, 2437, 5500, 6500}
    \cup {e + x : e \in BandEdges, x \in (0 - FreqDelta)..FreqDelta}

InitBand ==
    /\ SessionInit
    /\ input \in {<<f>> : f \in Frequencies}
    /\ output = <<>>

\* a call this.getFrequencyBand(input)
classifyFrequencyBand ==
    /\ output = <<>>
    /\ output' = <<getFrequencyBand(input[1])>>
    /\ UNCHANGED viewVars
    /\ UNCHANGED <<loadingCancelled, db, networks, locations, timeRange, loads,
                   input>>

NextBand == classifyFrequencyBand

SpecBand == InitBand /\ [][NextBand]_vars

(***************************************************************************)
(* Vocabulary of the properties.                                           *)
(***************************************************************************)
\* load l runs a segment in this step
Acts(l) == loads'[l].pc # loads[l].pc \/ loads'[l].i # loads[l].i

\* load l leaves handleFileUpload in this step
Ends(l, outcome) ==
    loads[l].pc # "done" /\ loads'[l].pc = "done" /\ loads'[l].outcome = outcome

Ended(l, outcome) == loads[l].pc = "done" /\ loads[l].outcome = outcome

\* load l ran alone: every earlier load had completed before it began, no
\* other load was in flight during it and none has started since
Alone(l) ==
    /\ ~loads[l].overlapped
    /\ \A m \in Loads : m < l => Ended(m, "complete")
    /\ \A m \in Loads : m > l => loads[m].pc = "idle"

NetworkRecords(d) == mapRows("networks", NetworkQuery(d))
LocationRecords(d) == mapRows("observations", LocationQuery(d))

PositiveTimes(net, loc) ==
    {net[k].lasttime : k \in {j \in 1..Len(net) : net[j].lasttime > 0}} \cup
    {loc[k].time : k \in {j \in 1..Len(loc) : loc[j].time > 0}}

\* the range of section 4.6 over the record sets net and loc
ExpectedRange(net, loc) ==
    IF PositiveTimes(net, loc) = {} THEN NoRange
    ELSE [min |-> SetMin(PositiveTimes(net, loc)),
          max |-> SetMax(PositiveTimes(net, loc))]

\* what calculateTimeRange leaves in data.timeRange, given what was there
RangeAfter(net, loc, old) ==
    IF PositiveTimes(net, loc) = {} THEN old ELSE ExpectedRange(net, loc)

NonDecreasing(log) == \A k \in 1..(Len(log) - 1) : log[k] <= log[k + 1]

(***************************************************************************)
(* C1 (as claimed): once a later load has started, an earlier load that is *)
(* still in flight writes neither data.networks, data.locations nor        *)
(* data.timeRange and reports no further progress.                         *)
(***************************************************************************)
C1_EarlierLoadStops ==
    [][\A l, m \in Loads :
         (l < m /\ loads[m].pc # "idle" /\ Acts(l))
         => /\ UNCHANGED <<networks, locations, timeRange>>
            /\ loads'[l].log = loads[l].log]_vars

C3_EarlyCancelEmpties ==
    \A l \in Loads :
        (Ended(l, "cancelled") /\ loads[l].at = "read" /\ Alone(l))
        => networks = <<>> /\ locations = <<>>

(***************************************************************************)
(* C3 (amended): a load that sees the cancellation flag before any chunk   *)
(* of either pass has completed (the test after the file read) returns     *)
(* without a write: the record sets, the time range and the database stay  *)
(* as they were, and it reports no further progress.  The record sets are  *)
(* empty afterwards only if they were empty before.                        *)
(***************************************************************************)
C3_EarlyCancelWritesNothing ==
    [][\A l \in Loads :
         (loads[l].pc = "read" /\ Ends(l, "cancelled"))
         => /\ UNCHANGED <<networks, locations, timeRange, db>>
            /\ loads'[l].log = loads[l].log
            /\ loads'[l].at = "read"]_vars

\* a load cancelled during the file read, after which the session still
\* holds the records of the previous load
C3_Witness ==
    \E l \in Loads :
        /\ Ended(l, "cancelled") /\ loads[l].at = "read" /\ Alone(l)
        /\ networks # <<>> /\ networks = loads[l].pre.networks
        /\ locations # <<>> /\ locations = loads[l].pre.locations

(***************************************************************************)
(* C4.  PassCommits(l, seen): when load l ends a pass in this step, the    *)
(* pass commits [] if seen holds and the transform of every row of the     *)
(* pass, in order, otherwise; the observations pass leaves data.networks   *)
(* alone; a pass that goes on commits nothing.                             *)
(***************************************************************************)
PassCommits(l, seen) ==
    /\ (loads[l].pc = "networks" /\ loads'[l].pc # "networks")
       => networks' = IF seen THEN <<>>
                      ELSE mapRows("networks", loads[l].data)
    /\ (loads[l].pc = "observations" /\ loads'[l].pc # "observations")
       => /\ locations' = IF seen THEN <<>>
                          ELSE mapRows("observations", loads[l].data)
          /\ networks' = networks
    /\ (loads[l].pc \in {"networks", "observations"}
        /\ loads'[l].pc = loads[l].pc)
       => UNCHANGED <<networks, locations>>

C5_LoadReplacesWholesale ==
    \A l \in Loads :
        (Ended(l, "complete") /\ Alone(l))
        => /\ networks = NetworkRecords(loads[l].file)
           /\ locations = LocationRecords(loads[l].file)

(***************************************************************************)
(* C6 (as claimed): when a load that ran alone has failed, data.networks,  *)
(* data.locations and data.timeRange have their pre-load values.           *)
(***************************************************************************)
C6_FailureKeepsPreLoad ==
    \A l \in Loads :
        (Ended(l, "failed") /\ Alone(l))
        => /\ networks = loads[l].pre.networks
           /\ locations = loads[l].pre.locations
           /\ timeRange = loads[l].pre.timeRange

(***************************************************************************)
(* C7 (as claimed): the percentages one load passes to updateProgress are  *)
(* monotonically non-decreasing.                                           *)
(***************************************************************************)
C7_ProgressMonotone == \A l \in Loads : NonDecreasing(loads[l].log)

(***************************************************************************)
(* C8 (as claimed): every percentage passed to updateProgress lies in      *)
(* 0..100 (0..1000 tenths).                                                *)
(***************************************************************************)
C8_ProgressInRange ==
    \A l \in Loads :
        \A k \in 1..Len(loads[l].log) :
            0 <= loads[l].log[k] /\ loads[l].log[k] <= 1000

(***************************************************************************)
(* C9 (as claimed): after a completed load data.timeRange is the minimum   *)
(* and maximum of the strictly positive timestamps of the current record   *)
(* sets, the sentinel (0,0) when there is none, and min <= max.            *)
(***************************************************************************)
C9_TimeRangeCurrent ==
    \A l \in Loads :
        (Ended(l, "complete") /\ Alone(l))
        => /\ timeRange = ExpectedRange(networks, locations)
           /\ timeRange.min <= timeRange.max

(***************************************************************************)
(* C10 (as claimed): parseSecurityInfo returns Open for empty or null      *)
(* capabilities and always a member of {Open, WEP, WPA, WPA2, WPA3}.       *)
(***************************************************************************)
SecurityClass == {"Open", "WEP", "WPA", "WPA2", "WPA3"}

Empty(str) == str = NULL \/ str = <<>>

C10_EmptyIsOpen ==
    output # <<>>
    => /\ Empty(input[1]) => output[1] = "Open"
       /\ output[1] \in SecurityClass

(***************************************************************************)
(* C10 (amended): parseSecurityInfo returns Unknown, a sixth value outside *)
(* the SecurityClass enum, exactly when capabilities is empty or null, and *)
(* a member of {Open, WEP, WPA, WPA2, WPA3} for every other input.         *)
(***************************************************************************)
C10_EmptyIsUnknown ==
    output # <<>>
    => /\ Empty(input[1]) <=> output[1] = "Unknown"
       /\ ~Empty(input[1]) => output[1] \in SecurityClass

\* the classifier has been applied to the empty string
C10_Witness == input = << <<>> >> /\ output = <<"Unknown">>

(***************************************************************************)
(* C11.  Occurs(tok, str): the token occurs in the string at some offset.  *)
(***************************************************************************)
Occurs(tok, str) ==
    \E a \in 1..Len(str) :
        \A j \in 1..Len(tok) : a + j - 1 <= Len(str) /\ str[a + j - 1] = tok[j]

TokWPA3 == <<"W", "P", "A", "3">>
TokWPA2 == <<"W", "P", "A", "2">>
TokWPA == <<"W", "P", "A">>
TokWEP == <<"W", "E", "P">>

(***************************************************************************)
(* C11: for a non-empty capabilities string parseSecurityInfo returns the  *)
(* first match in the order WPA3, WPA2, WPA, WEP, and Open when none of    *)
(* the four occurs; a string in which WPA2 (and with it WPA) occurs is     *)
(* never classified WPA, and is classified WPA2 unless WPA3, which comes   *)
(* first in the order, occurs too.                                         *)
(***************************************************************************)
C11_FirstMatchWins ==
    (output # <<>> /\ ~Empty(input[1]))
    => LET c == input[1]
           first == IF Occurs(TokWPA3, c) THEN 1
                    ELSE IF Occurs(TokWPA2, c) THEN 2
                    ELSE IF Occurs(TokWPA, c) THEN 3
                    ELSE IF Occurs(TokWEP, c) THEN 4
                    ELSE 5
       IN  /\ output[1] = <<"WPA3", "WPA2", "WPA", "WEP", "Open">>[first]
           /\ Occurs(TokWPA2, c) => output[1] # "WPA"
           /\ (Occurs(TokWPA2, c) /\ ~Occurs(TokWPA3, c))
              => output[1] = "WPA2"
           /\ (\A t \in {TokWPA3, TokWPA2, TokWPA, TokWEP} : ~Occurs(t, c))
              <=> output[1] = "Open"

\* the classifier has been applied to WPA2-WPA, in which WPA2 and a
\* separate WPA occur
C11_Witness ==
    /\ input = << <<"W", "P", "A", "2", "-", "W", "P", "A">> >>
    /\ output = <<"WPA2">>

(***************************************************************************)
(* C12: getFrequencyBand returns 2.4 GHz for 2400 <= f <= 2500, 5 GHz for  *)
(* 5000 <= f <= 6000 and 6 GHz for 6000 < f <= 7000; the shared edge 6000  *)
(* is 5 GHz, 6001 is 6 GHz and 2500 is 2.4 GHz.                            *)
(***************************************************************************)
C12_BandEdges ==
    output # <<>>
    => LET f == input[1]
       IN  /\ (2400 <= f /\ f <= 2500) => output[1] = "2.4 GHz"
           /\ (5000 <= f /\ f <= 6000) => output[1] = "5 GHz"
           /\ (6000 < f /\ f <= 7000) => output[1] = "6 GHz"
           /\ f = 6000 => output[1] = "5 GHz"
           /\ f = 6001 => output[1] = "6 GHz"
           /\ f = 2500 => output[1] = "2.4 GHz"

\* the classifier has been applied to the shared edge 6000
C12_Witness == input = <<6000>> /\ output = <<"5 GHz">>

(***************************************************************************)
(* C13 (as claimed): getFrequencyBand returns the 900 MHz band for every   *)
(* frequency in 900..1000 and the 1800 MHz band for every frequency in     *)
(* 1800..2000, and Other only outside 2400..2500, 5000..7000, 900..1000    *)
(* and 1800..2000.                                                         *)
(***************************************************************************)
C13_CellularBands ==
    output # <<>>
    => LET f == input[1]
       IN  /\ (900 <= f /\ f <= 1000) => output[1] = "900 MHz"
           /\ (1800 <= f /\ f <= 2000) => output[1] = "1800 MHz"
           /\ output[1] = "Other"
              => ~ \/ (2400 <= f /\ f <= 2500) \/ (5000 <= f /\ f <= 7000)
                   \/ (900 <= f /\ f <= 1000) \/ (1800 <= f /\ f <= 2000)

(***************************************************************************)
(* C13 (amended): getFrequencyBand has the four results 2.4 GHz, 5 GHz,    *)
(* 6 GHz and Other, and returns Other exactly for the frequencies outside  *)
(* 2400..2500 and 5000..7000, those of 900..1000 and 1800..2000 included.  *)
(***************************************************************************)
C13_OtherOutsideWifi ==
    output # <<>>
    => LET f == input[1]
       IN  /\ output[1] \in {"2.4 GHz", "5 GHz", "6 GHz", "Other"}
           /\ output[1] = "Other"
              <=> ~ \/ (2400 <= f /\ f <= 2500) \/ (5000 <= f /\ f <= 7000)
           /\ (900 <= f /\ f <= 1000) => output[1] = "Other"
           /\ (1800 <= f /\ f <= 2000) => output[1] = "Other"

\* the classifier has been applied to a GSM 900 frequency
C13_Witness == input = <<900>> /\ output = <<"Other">>

(***************************************************************************)
(* C14: for a count of N observation rows and the ceiling                  *)
(* C = MAX_LOCATION_SAMPLES, the location query has no modulo condition    *)
(* (stride 1) and no limit when N <= C, so that all N rows are returned;   *)
(* otherwise its stride is ceil(N / C), the least s with s * C >= N, and   *)
(* its limit is C.                                                         *)
(***************************************************************************)
C14_SamplingPlan ==
    output # <<>>
    => LET N == input[1]
           C == MAX_LOCATION_SAMPLES
           q == output[1]
           rows == output[2]
       IN  /\ N <= C => q.modulo = <<>> /\ q.limit = <<>> /\ Len(rows) = N
           /\ N > C
              => /\ q.limit = <<C>>
                 /\ Len(q.modulo) = 1
                 /\ q.modulo[1] * C >= N
                 /\ (q.modulo[1] - 1) * C < N
                 /\ Len(rows) <= C
                 /\ \A m \in 1..Len(rows) :
                        (rows[m][1] - 52000) % q.modulo[1] = 0

\* the plan for N = 14 rows at C = 4 (the ratio of N = 50000 at
\* C = 15000): stride 4 and limit C
C14_Witness ==
    /\ input = <<14>>
    /\ output # <<>>
    /\ output[1] = [modulo |-> <<4>>, limit |-> <<MAX_LOCATION_SAMPLES>>]

(***************************************************************************)
(* C15.  Vocabulary: the first three predicates of the filter, the         *)
(* security class of a non-empty capabilities string by first match, the   *)
(* check box of a class, and membership in the filter's result.            *)
(***************************************************************************)
PassesTypeSignalSearch(n, c) ==
    /\ n.type \in c.activeTypes
    /\ n.level >= c.minSignal
    /\ \/ c.searchText = <<>>
       \/ Occurs(toLowerCase(c.searchText), toLowerCase(n.ssid))
       \/ Occurs(toLowerCase(c.searchText), toLowerCase(n.bssid))

FirstMatch(c) ==
    IF Occurs(TokWPA3, c) THEN "WPA3"
    ELSE IF Occurs(TokWPA2, c) THEN "WPA2"
    ELSE IF Occurs(TokWPA, c) THEN "WPA"
    ELSE IF Occurs(TokWEP, c) THEN "WEP"
    ELSE "Open"

FlagOf(class, flags) ==
    CASE class = "Open" -> flags.open
      [] class = "WEP" -> flags.wep
      [] class \in {"WPA", "WPA2"} -> flags.wpa
      [] class = "WPA3" -> flags.wpa3

IsHidden(n) == n.ssid = <<>> \/ n.ssid = HiddenNetwork

Returned(n) == \E k \in 1..Len(output[1]) : output[1][k] = n

(***************************************************************************)
(* C15 (as claimed): of the records that pass the type, signal and search  *)
(* predicates, a record of type W that is hidden is returned iff the       *)
(* hidden flag is set, one that is not hidden iff the flag of its security *)
(* class is set, the class of empty capabilities being Open; a record of   *)
(* another type is always returned.                                        *)
(***************************************************************************)
C15_GateByClassEmptyOpen ==
    output # <<>>
    => \A k \in 1..Len(networks) :
         LET n == networks[k]
             flags == input[1].securityFilters
         IN  PassesTypeSignalSearch(n, input[1])
             => (Returned(n)
                 <=> IF n.type # "W" THEN TRUE
                     ELSE IF IsHidden(n) THEN flags.hidden
                     ELSE IF Empty(n.capabilities) THEN flags.open
                     ELSE FlagOf(FirstMatch(n.capabilities), flags))

(***************************************************************************)
(* C15 (amended): as claimed, except that a record of type W that is not   *)
(* hidden and has empty capabilities (class Unknown, which has no flag) is *)
(* returned whatever the security flags are.                               *)
(***************************************************************************)
C15_GateByClassEmptyPasses ==
    output # <<>>
    => \A k \in 1..Len(networks) :
         LET n == networks[k]
             flags == input[1].securityFilters
         IN  PassesTypeSignalSearch(n, input[1])
             => (Returned(n)
                 <=> IF n.type # "W" THEN TRUE
                     ELSE IF IsHidden(n) THEN flags.hidden
                     ELSE IF Empty(n.capabilities) THEN TRUE
                     ELSE FlagOf(FirstMatch(n.capabilities), flags))

\* the filter has returned a named Wi-Fi record with empty capabilities
\* although the Open flag is not set, next to a record it has rejected
C15_Witness ==
    /\ output # <<>>
    /\ ~input[1].securityFilters.open
    /\ \E k \in 1..Len(networks) :
          /\ networks[k].type = "W" /\ ~IsHidden(networks[k])
          /\ networks[k].capabilities = <<>>
          /\ Returned(networks[k])
    /\ \E k \in 1..Len(networks) :
          /\ PassesTypeSignalSearch(networks[k], input[1])
          /\ ~Returned(networks[k])

(***************************************************************************)
(* C16: for fixed criteria and record sets A contained in B, the filter    *)
(* returns at least as many records of B as of A; indeed every record      *)
(* returned of A is returned of B, and a record of A is returned of A iff  *)
(* it is returned of B (each record is decided on its own).                *)
(***************************************************************************)
C16_FilterMonotone ==
    output # <<>>
    => /\ Len(output[2]) <= Len(output[1])
       /\ \A m \in 1..Len(output[2]) : Returned(output[2][m])
       /\ \A k \in input[2] :
             Returned(networks[k])
             <=> \E m \in 1..Len(output[2]) : output[2][m] = networks[k]

\* the filter has returned a record of A, and of B that record and one more
C16_Witness ==
    /\ output # <<>>
    /\ Len(output[2]) = 1
    /\ Len(output[1]) = 2
    /\ Cardinality(input[2]) < Len(networks)

(***************************************************************************)
(* C17.  Vocabulary: the records of a set with a property of their         *)
(* timestamp, as a sequence in the order of the set.                       *)
(***************************************************************************)
NetworksWhere(P(_)) == LET keep(n) == P(n.lasttime) IN SelectSeq(networks, keep)

LocationsWhere(P(_)) == LET keep(l) == P(l.time) IN SelectSeq(locations, keep)

AtMin(t) == t = timeRange.min

UpToMin(t) == t <= timeRange.min

NoTimestamp(t) == t <= 0

(***************************************************************************)
(* C17 (as claimed): at slider value 0 (cutoff timeRange.min) the time     *)
(* filter keeps exactly the records whose timestamp equals timeRange.min,  *)
(* also for record sets with records of timestamp <= 0 (stated for a       *)
(* session whose timeRange is the range of its current record sets and     *)
(* not the sentinel).                                                      *)
(***************************************************************************)
C17_MinCutoffKeepsEarliest ==
    \A c \in 1..Len(output) :
        (output[c].sliderValue = 0 /\ timeRange.min > 0
         /\ timeRange = ExpectedRange(networks, locations))
        => /\ output[c].networks = NetworksWhere(AtMin)
           /\ output[c].locations = LocationsWhere(AtMin)

(***************************************************************************)
(* C17 (amended): at slider value 0 the time filter keeps exactly the      *)
(* records whose timestamp is at most timeRange.min: every record at       *)
(* timeRange.min, every record with a timestamp <= 0, and no record with   *)
(* a timestamp above timeRange.min.                                        *)
(***************************************************************************)
C17_MinCutoffKeepsUpToMin ==
    \A c \in 1..Len(output) :
        output[c].sliderValue = 0
        => /\ output[c].currentTime = 100 * timeRange.min
           /\ output[c].networks = NetworksWhere(UpToMin)
           /\ output[c].locations = LocationsWhere(UpToMin)
           /\ \A k \in 1..Len(networks) :
                 (AtMin(networks[k].lasttime) \/ NoTimestamp(networks[k].lasttime))
                 => \E m \in 1..Len(output[c].networks) :
                        output[c].networks[m] = networks[k]
           /\ \A k \in 1..Len(locations) :
                 (AtMin(locations[k].time) \/ NoTimestamp(locations[k].time))
                 => \E m \in 1..Len(output[c].locations) :
                        output[c].locations[m] = locations[k]

\* a call at slider value 0 that kept a network at timeRange.min, kept a
\* network without a timestamp and dropped a later network
C17_Witness ==
    \E c \in 1..Len(output) :
        /\ output[c].sliderValue = 0
        /\ timeRange.min > 0
        /\ timeRange = ExpectedRange(networks, locations)
        /\ \E m \in 1..Len(output[c].networks) :
              output[c].networks[m].lasttime = timeRange.min
        /\ \E m \in 1..Len(output[c].networks) :
              output[c].networks[m].lasttime <= 0
        /\ Len(output[c].networks) < Len(networks)

(***************************************************************************)
(* C18: of two calls of the time filter on the same record sets with       *)
(* cutoff1 < cutoff2, the first keeps at most as many networks (lasttime   *)
(* <= cutoff) and at most as many observations (time <= cutoff) as the     *)
(* second.                                                                 *)
(***************************************************************************)
C18_CutoffMonotone ==
    \A a \in 1..Len(output), b \in 1..Len(output) :
        output[a].currentTime < output[b].currentTime
        => /\ Len(output[a].networks) <= Len(output[b].networks)
           /\ Len(output[a].locations) <= Len(output[b].locations)

\* two calls of which the one with the later cutoff kept more networks and
\* more observations
C18_Witness ==
    \E a \in 1..Len(output), b \in 1..Len(output) :
        /\ output[a].currentTime < output[b].currentTime
        /\ Len(output[a].networks) < Len(output[b].networks)
        /\ Len(output[a].locations) < Len(output[b].locations)
        /\ Len(output[a].networks) > 0

(***************************************************************************)
(* C19.  Vocabulary: the cell of a record is the pair of multiples of 10   *)
(* nearest to its coordinates (the upper one for a coordinate half way);   *)
(* the count of a cell; the index of the first record of a cell.           *)
(***************************************************************************)
NearestMultiple(x) == 10 * ((x + 5) \div 10)

CellOf(n) == <<NearestMultiple(n.lat), NearestMultiple(n.lon)>>

CellCount(c) == Cardinality({k \in 1..Len(networks) : CellOf(networks[k]) = c})

FirstSeen(c) ==
    SetMin({k \in 1..Len(networks) : CellOf(networks[k]) = c})

(***************************************************************************)
(* C19: for a non-empty network set centerMapOnData centres on a grid cell *)
(* whose record count is maximal over all cells, and among the cells tied  *)
(* for the maximum on the one whose first record comes earliest; 3 records *)
(* in the cell (52.00, 13.00) and 2 in (52.50, 13.50) give (52.00, 13.00). *)
(***************************************************************************)
C19_DensestFirstSeen ==
    (output # <<>> /\ networks # <<>>)
    => LET cells == {CellOf(networks[k]) : k \in 1..Len(networks)}
           c == output[1]
       IN  /\ c \in cells
           /\ \A o \in cells : CellCount(o) <= CellCount(c)
           /\ \A o \in cells :
                 CellCount(o) = CellCount(c) => FirstSeen(c) <= FirstSeen(o)
           /\ (CellCount(<<52000, 13000>>) = 3 /\ Len(networks) = 5
               /\ CellCount(<<52500, 13500>>) = 2)
              => c = <<52000, 13000>>

\* two cells tied at two records each, the one seen second completed
\* first; the map is centred on the one seen first
C19_Witness ==
    /\ output = << <<52000, 13000>> >>
    /\ Len(networks) = 5
    /\ CellOf(networks[1]) = <<52000, 13000>>
    /\ CellOf(networks[2]) = <<52500, 13500>>
    /\ CellOf(networks[3]) = <<52500, 13500>>
    /\ CellCount(<<52000, 13000>>) = 2

(***************************************************************************)
(* C20.  Vocabulary: the networks that match an observation (same type,    *)
(* less than 0.001 apart in latitude and in longitude), the first of them  *)
(* in the order of the networks list, the tally of a network and the sum   *)
(* of all tallies before the cut.                                          *)
(***************************************************************************)
Matching(j) ==
    {k \in 1..Len(networks) :
        /\ networks[k].type = locations[j].type
        /\ networks[k].lat - locations[j].lat \in -9..9
        /\ networks[k].lon - locations[j].lon \in -9..9}

Matched == {j \in 1..Len(locations) : Matching(j) # {}}

FirstMatching(j) == SetMin(Matching(j))

TallyOf(k) ==
    LET s == output[1].sightings
        es == {e \in 1..Len(s) : s[e].bssid = networks[k].bssid}
    IN  IF es = {} THEN 0 ELSE s[CHOOSE e \in es : TRUE].sightings

RECURSIVE SumSightings(_)
SumSightings(s) ==
    IF s = <<>> THEN 0 ELSE Head(s).sightings + SumSightings(Tail(s))

(***************************************************************************)
(* C20 (as claimed): every observation that has a matching network adds    *)
(* exactly one to the tally of the first such network in the order of the  *)
(* networks list, so that before the cut the tallies sum to the number of  *)
(* observations that have a matching network.                              *)
(***************************************************************************)
C20_EveryMatchTallied ==
    output # <<>>
    => /\ \A k \in 1..Len(networks) :
             TallyOf(k) = Cardinality({j \in Matched : FirstMatching(j) = k})
       /\ SumSightings(output[1].sightings) = Cardinality(Matched)

(***************************************************************************)
(* C20 (amended): an observation adds exactly one to the tally of its      *)
(* first matching network if that network is named, and to no tally if     *)
(* that network is hidden, also when a named network further down the list *)
(* matches too; before the cut the tallies sum to the number of            *)
(* observations whose first matching network is named.                     *)
(***************************************************************************)
C20_NamedFirstMatchTallied ==
    output # <<>>
    => LET Counted == {j \in Matched : ~IsHidden(networks[FirstMatching(j)])}
       IN  /\ \A k \in 1..Len(networks) :
                 TallyOf(k) = Cardinality({j \in Counted : FirstMatching(j) = k})
           /\ SumSightings(output[1].sightings) = Cardinality(Counted)

\* the ranking has tallied an observation for its first matching network
\* and left out one whose first matching network is hidden although a
\* named network matches it too
C20_Witness ==
    /\ output # <<>>
    /\ SumSightings(output[1].sightings) > 0
    /\ \E j \in Matched :
          /\ IsHidden(networks[FirstMatching(j)])
          /\ \E k \in Matching(j) : ~IsHidden(networks[k])

(***************************************************************************)
(* C21.  Vocabulary: the tallies after the first j observations, and the   *)
(* scenario of one W network and three W observations of which exactly two *)
(* are within epsilon of it.                                               *)
(***************************************************************************)
TalliesAfter(j) == tallySightings(networks, SubSeq(locations, 1, j), 1, <<>>)

OneNetworkTwoNear ==
    /\ Len(networks) = 1 /\ networks[1].type = "W"
    /\ Len(locations) = 3
    /\ \A j \in 1..3 : locations[j].type = "W"
    /\ Cardinality(Matched) = 2

\* no observation without a matching network adds to a tally, none adds
\* more than one, and the tallies sum to at most the number of observations
TalliesBounded ==
    /\ output[1].sightings = TalliesAfter(Len(locations))
    /\ \A j \in 1..Len(locations) :
          LET added == SumSightings(TalliesAfter(j))
                       - SumSightings(TalliesAfter(j - 1))
          IN  /\ added \in {0, 1}
              /\ j \notin Matched => TalliesAfter(j) = TalliesAfter(j - 1)
    /\ SumSightings(output[1].sightings) <= Cardinality(Matched)
    /\ SumSightings(output[1].sightings) <= Len(locations)

(***************************************************************************)
(* C21 (as claimed): an observation with no same-type network within       *)
(* epsilon (strictly) in both axes adds to no tally, no observation adds   *)
(* to more than one tally, the tallies sum to at most the number of        *)
(* observations, and for one W network and three W observations of which   *)
(* exactly two are within epsilon the sighting count of the network is 2.  *)
(***************************************************************************)
C21_TalliesBoundedScenarioAny ==
    output # <<>>
    => /\ TalliesBounded
       /\ OneNetworkTwoNear => TallyOf(1) = 2

(***************************************************************************)
(* C21 (amended): as claimed, with the scenario for a named network: one   *)
(* named W network and three W observations of which exactly two are       *)
(* within epsilon give the sighting count 2; if the network is hidden it   *)
(* has no tally.                                                           *)
(***************************************************************************)
C21_TalliesBoundedScenarioNamed ==
    output # <<>>
    => /\ TalliesBounded
       /\ (OneNetworkTwoNear /\ ~IsHidden(networks[1]))
          => /\ TallyOf(1) = 2
             /\ Len(output[1].top) = 1 /\ output[1].top[1].sightings = 2
       /\ (OneNetworkTwoNear /\ IsHidden(networks[1]))
          => output[1].sightings = <<>>

\* the scenario: a named W network, two W observations within epsilon of
\* it and a far one; the count of the network is 2
C21_Witness ==
    /\ output # <<>>
    /\ OneNetworkTwoNear /\ ~IsHidden(networks[1])
    /\ locations[3].lat = 530000
    /\ TallyOf(1) = 2

(***************************************************************************)
(* Vocabulary of the analysis claims.                                      *)
(***************************************************************************)
RECURSIVE SumCounts(_)
SumCounts(entries) ==
    IF entries = <<>> THEN 0
    ELSE Head(entries).count + SumCounts(Tail(entries))

RECURSIVE SumPercentages(_)
SumPercentages(entries) ==
    IF entries = <<>> THEN 0
    ELSE Head(entries).percentage + SumPercentages(Tail(entries))

KnownTypes == {"W", "B", "E", "G", "L", "C"}

AllTypesKnown == \A k \in 1..Len(networks) : networks[k].type \in KnownTypes

WifiCount == Cardinality({k \in 1..Len(networks) : networks[k].type = "W"})

\* the percentages of the groups add up to 100, give or take half a point
\* for each group
SumsTo100(entries) == 2 * Abs(SumPercentages(entries) - 100) <= Len(entries)

\* C22: for a non-empty network set whose types all lie in W, B, E, G, L, C
\* the per-type counts of the analysis add up to totalNetworks and the
\* rounded per-type percentages add up to 100 within half a point per
\* group; when there is a Wi-Fi network the counts of the security groups
\* (the group of the unclassified ones included) add up to the Wi-Fi count
\* and their percentages add up to 100 within half a point per group.
C22_SharesAddUp ==
    output # <<>> =>
       /\ (networks # <<>> /\ AllTypesKnown) =>
             /\ output[1].totalNetworks = Len(networks)
             /\ SumCounts(output[1].networkTypes) = output[1].totalNetworks
             /\ SumsTo100(output[1].networkTypes)
       /\ WifiCount > 0 =>
             /\ output[1].wifiNetworks = WifiCount
             /\ SumCounts(output[1].wifiSecurity) = WifiCount
             /\ SumsTo100(output[1].wifiSecurity)

C22_Witness ==
    /\ output # <<>>
    /\ AllTypesKnown
    /\ Len(output[1].networkTypes) = 6
    /\ SumPercentages(output[1].networkTypes) # 100
    /\ Len(output[1].wifiSecurity) >= 3
    /\ SumPercentages(output[1].wifiSecurity) # 100

(***************************************************************************)
(* C25.  Vocabulary: the counts the triggers are stated on, taken from the *)
(* network set, and the place of a finding in the fixed order.             *)
(***************************************************************************)
WifiOfClass(class) ==
    Cardinality({k \in 1..Len(networks) :
                   /\ networks[k].type = "W"
                   /\ ~Empty(networks[k].capabilities)
                   /\ FirstMatch(networks[k].capabilities) = class})

BluetoothCount ==
    Cardinality({k \in 1..Len(networks) : networks[k].type \in {"B", "E"}})

NamedSsids ==
    { networks[k].ssid : k \in {j \in 1..Len(networks) :
                                  networks[j].type = "W" /\ ~IsHidden(networks[j])} }

CommonPresent ==
    { i \in 1..Len(commonNames) :
        \E k \in 1..Len(networks) :
            networks[k].type = "W" /\ Occurs(commonNames[i], networks[k].ssid) }

Trigger(finding) ==
    CASE finding = "open" -> WifiOfClass("Open") > 5
      [] finding = "wep" -> WifiOfClass("WEP") > 0
      [] finding = "wpa3" -> WifiOfClass("WPA3") > 0
      [] finding = "bluetooth" -> BluetoothCount > 50
      [] finding = "lowDiversity" ->
            WifiCount > 0 /\ 10 * Cardinality(NamedSsids) < 3 * WifiCount
      [] finding = "highDiversity" ->
            WifiCount > 0 /\ 10 * Cardinality(NamedSsids) > 8 * WifiCount
      [] finding = "common" -> Cardinality(CommonPresent) > 2
      [] OTHER -> FALSE

FindingRank(finding) ==
    CASE finding = "open" -> 1
      [] finding = "wep" -> 2
      [] finding = "wpa3" -> 3
      [] finding = "bluetooth" -> 4
      [] finding \in {"lowDiversity", "highDiversity"} -> 5
      [] OTHER -> 6

\* C25: generateWardrivingFindings returns at most 5 findings, in the order
\* open networks, WEP, WPA3, Bluetooth, diversity, common names; a finding
\* is returned only if its trigger holds on the input (open Wi-Fi count > 5,
\* WEP count > 0, WPA3 count > 0, Bluetooth count > 50, unique names over
\* Wi-Fi count below 0.3 or above 0.8, more than 2 common names present);
\* with no Wi-Fi network there is no diversity finding and the call returns.
C25_FindingsCappedOrdered ==
    output # <<>> =>
       LET f == output[1].findings
       IN  /\ Len(f) <= 5
           /\ \A a, b \in 1..Len(f) :
                 a < b => FindingRank(f[a].finding) < FindingRank(f[b].finding)
           /\ \A a \in 1..Len(f) : Trigger(f[a].finding)
           /\ WifiCount = 0
              => \A a \in 1..Len(f) : FindingRank(f[a].finding) # 5

\* all six triggers hold at once and five findings are returned
C25_Witness ==
    /\ output # <<>>
    /\ \A finding \in {"open", "wep", "wpa3", "bluetooth", "lowDiversity",
                       "common"} : Trigger(finding)
    /\ Len(output[1].findings) = 5

(***************************************************************************)
(* C23 (as claimed): at every suspension point of a load in flight         *)
(* data.networks and data.locations belong to one and the same load: they  *)
(* are the record sets the session held when the load began or the record  *)
(* sets of the load's source, never the networks of the load in flight     *)
(* together with the observations of the previous load (stated for a load  *)
(* that ran alone, after a load that left observations, on a source with   *)
(* network and observation rows).                                          *)
(***************************************************************************)
C23_OneLoadAtSuspension ==
    \A l \in Loads :
        ( /\ InFlight(loads[l]) /\ Alone(l)
          /\ loads[l].pre.locations # <<>>
          /\ NetworkRecords(loads[l].file) # <<>>
          /\ LocationRecords(loads[l].file) # <<>> )
        => \/ /\ networks = loads[l].pre.networks
              /\ locations = loads[l].pre.locations
           \/ /\ networks = NetworkRecords(loads[l].file)
              /\ locations = LocationRecords(loads[l].file)

(***************************************************************************)
(* C24.  Vocabulary: load l is suspended in a pass; the rows of the pass   *)
(* that have been processed.                                               *)
(***************************************************************************)
InPass(l) == loads[l].pc \in {"networks", "observations"}

Processed(l) == Len(loads[l].result)

Remaining(l) == Len(loads[l].data) - Len(loads[l].result)

(***************************************************************************)
(* C24 (as claimed): processInChunks suspends after each chunk, so that    *)
(* one step of a pass (the run between two suspension points) processes at *)
(* most one chunk: a pass that goes on has at most CHUNK_SIZE more rows    *)
(* processed, and a pass that returns had at most one chunk left.          *)
(***************************************************************************)
C24_SuspendsAfterEachChunk ==
    [][\A l \in Loads :
         (InPass(l) /\ Acts(l) /\ ~loadingCancelled)
         => IF loads'[l].pc = loads[l].pc
            THEN Len(loads'[l].result) <= Processed(l) + CHUNK_SIZE
            ELSE Remaining(l) <= CHUNK_SIZE]_vars

(***************************************************************************)
(* C24 (amended): processInChunks suspends after every second chunk,       *)
(* beginning with the first: it is suspended only after a chunk whose      *)
(* index is a multiple of 2 * CHUNK_SIZE, with every row up to the end of  *)
(* that chunk processed; a pass that goes on processes the next two chunks *)
(* in one step; a cancelLoading issued during a suspension that a further  *)
(* chunk follows prevents that chunk from being processed: the pass        *)
(* returns [] and the load ends.                                           *)
(***************************************************************************)
C24_SuspendsAfterEverySecondChunk ==
    [][\A l \in Loads :
         (InPass(l) /\ Acts(l))
         => /\ loads[l].i % (2 * CHUNK_SIZE) = 0
            /\ Processed(l) = Min(loads[l].i + CHUNK_SIZE, Len(loads[l].data))
            /\ loads'[l].pc = loads[l].pc
               => /\ ~loadingCancelled
                  /\ loads'[l].data = loads[l].data
                  /\ loads'[l].i = loads[l].i + 2 * CHUNK_SIZE
                  /\ Len(loads'[l].result) =
                        Min(loads'[l].i + CHUNK_SIZE, Len(loads[l].data))
            /\ (loadingCancelled /\ Remaining(l) > 0)
               => /\ Ends(l, "cancelled")
                  /\ loads[l].pc = "networks" => networks' = <<>>
                  /\ loads[l].pc = "observations" => locations' = <<>>]_vars

\* a pass of three chunks suspended after its third chunk, the second and
\* the third having been processed in one step
C24_Witness ==
    \E l \in Loads :
        /\ InPass(l)
        /\ loads[l].i = 2 * CHUNK_SIZE
        /\ Processed(l) > 2 * CHUNK_SIZE

(***************************************************************************)
(* C26 (as claimed): once cancelLoading has been called during a load, the *)
(* load commits no non-empty record set afterwards and does not reach its  *)
(* post-processing steps (after which it sleeps 500 ms before it ends),    *)
(* whatever events follow, the start of another load included.             *)
(***************************************************************************)
C26_CancellationSticky ==
    [][\A l \in Loads :
         (loads[l].cancelRequested /\ Acts(l))
         => /\ loads'[l].pc # "final"
            /\ networks' # networks => networks' = <<>>
            /\ locations' # locations => locations' = <<>>]_vars

(***************************************************************************)
(* C27.  Vocabulary: the identifiers among 1..N that the stride selects.   *)
(***************************************************************************)
StrideOf(N) == Ceil(N, MAX_LOCATION_SAMPLES)

Hits(N) == {j \in 1..N : j % StrideOf(N) = 0}

\* C27: when the observation rows carry the identifiers 1..N and
\* N > C = MAX_LOCATION_SAMPLES, the rows selected by id % stride = 0 with
\* stride = ceil(N / C) number at most C, so that the limit C cuts nothing
\* off (the rows returned are the selected ones, each multiple of the
\* stride in order), and at least floor(C / 2).
C27_SampleWithinLimit ==
    (output # <<>> /\ input[1] > MAX_LOCATION_SAMPLES)
    => LET N == input[1]
           rows == output[2]
       IN  /\ Cardinality(Hits(N)) <= MAX_LOCATION_SAMPLES
           /\ Len(rows) = Cardinality(Hits(N))
           /\ \A m \in 1..Len(rows) : rows[m][1] - 52000 = m * StrideOf(N)
           /\ Len(rows) >= MAX_LOCATION_SAMPLES \div 2

\* the sample of N = C + 1 rows: stride 2 and exactly floor(C / 2) rows
C27_Witness ==
    /\ input = <<MAX_LOCATION_SAMPLES + 1>>
    /\ output # <<>>
    /\ Len(output[2]) = MAX_LOCATION_SAMPLES \div 2

(***************************************************************************)
(* C28: after any sequence of view operations at most one of               *)
(* layers.heatmap and layers.geoJsonLayer is non-null, and the overlay     *)
(* layers on the map are exactly the non-null ones of the two: no layer    *)
(* stays on the map after its reference was dropped.                       *)
(***************************************************************************)
C28_OverlaysAreTheReferences ==
    /\ layers.heatmap = <<>> \/ layers.geoJsonLayer = <<>>
    /\ map = layers.heatmap \o layers.geoJsonLayer

\* a tick of the animation has replaced the marker layer of the markers
\* view by a timeline heat layer, which is on the map and not registered
\* with the layer control
C28_Witness ==
    /\ currentView = "markers"
    /\ animationTimer # <<>>
    /\ layers.heatmap # <<>>
    /\ layers.geoJsonLayer = <<>>
    /\ layers.layerControl = <<>>
    /\ map = layers.heatmap

(***************************************************************************)
(* C29.  Vocabulary: the records of the types checked on the page, and the *)
(* records at the indices 0, step, 2 * step, ... of a list.                *)
(***************************************************************************)
ActiveNetworks == SelectSeq(networks, LAMBDA n : n.type \in page.filter)

ActiveLocations == SelectSeq(locations, LAMBDA l : l.type \in page.filter)

\* pts, from its point number from + 1 on, holds n points: the positions of
\* the records of list at the indices 0, step, 2 * step, ...
EveryStepth(pts, from, n, list, step) ==
    /\ n = Ceil(Len(list), step)
    /\ \A k \in 1..n :
          /\ pts[from + k][1] = list[(k - 1) * step + 1].lat
          /\ pts[from + k][2] = list[(k - 1) * step + 1].lon

\* the layers registered by updateHeatmap and showNetworkMarkers are within
\* their budgets for the record sets and the page of the state
WithinBudget ==
    \A e \in 1..Len(layers.layerControl) :
       LET entry == layers.layerControl[e]
       IN  /\ entry.name = "Network Heatmap"
              => LET pts == entry.layer.latlngs
                 IN  /\ Len(pts) <= MAX_HEATMAP_POINTS
                     /\ \E a \in 0..Len(pts) :
                           /\ 10 * a <= 3 * MAX_HEATMAP_POINTS
                           /\ 10 * (Len(pts) - a) <= 7 * MAX_HEATMAP_POINTS
                           /\ \E step \in 1..Max(1, Len(ActiveNetworks)) :
                                 EveryStepth(pts, 0, a, ActiveNetworks, step)
                           /\ \E step \in 1..Max(1, Len(ActiveLocations)) :
                                 EveryStepth(pts, a, Len(pts) - a,
                                             ActiveLocations, step)
           /\ entry.name = "Network Markers"
              => LET shown == entry.layer.features
                     filtered == getFilteredNetworks(networks, page.criteria)
                 IN  /\ Len(shown) <= MAX_CANVAS_MARKERS
                     /\ Len(shown) = Min(Len(filtered), MAX_CANVAS_MARKERS)
                     /\ \A k \in 1..Len(shown) :
                           shown[k].properties = filtered[k]

\* C29: updateHeatmap passes at most MAX_HEATMAP_POINTS points to the heat
\* layer, at most 30% of that number from the networks and at most 70% from
\* the observations, taking every step-th record from index 0 on; and
\* showNetworkMarkers renders at most MAX_CANVAS_MARKERS markers, the first
\* ones of the filtered list in order (stated of every step that changes
\* this.layers, for the page as the step leaves it).
C29_LayersWithinBudget == [][layers' # layers => WithinBudget']_vars

\* a heat layer of updateHeatmap, called for an input of the radius slider,
\* for more networks and more observations than their shares of the budget:
\* both record sets have been sampled
C29_Witness ==
    /\ layers.heatmap # <<>>
    /\ layers.layerControl =
          <<[layer |-> layers.heatmap[1], name |-> "Network Heatmap"]>>
    /\ 10 * Len(ActiveNetworks) > 3 * MAX_HEATMAP_POINTS
    /\ 10 * Len(ActiveLocations) > 7 * MAX_HEATMAP_POINTS
    /\ Len(layers.heatmap[1].latlngs) <= MAX_HEATMAP_POINTS
    /\ page.radius = 25
    /\ layers.heatmap[1].radius = 25

====
